---- MODULE Spec2Model ----
(***************************************************************************)
(* Model of the two applications of the repository.                        *)
(*                                                                         *)
(* Task app (backend/src/modules): the Prisma tables User, RefreshToken,   *)
(* Project, ProjectMember and Task are the state; the service methods of   *)
(* TaskService and AuthService are the actions.  Strings that the code     *)
(* inspects (titles, search terms, e-mails) are sequences of characters,   *)
(* dates are integer clock ticks, a missing optional value is NoDate / ""  *)
(* / <<>>.                                                                 *)
(*                                                                         *)
(* Blog app (posts, blogspot and auth routes): the Mongoose collections    *)
(* Post and User, the module-level OAuth2 client and the provider are the  *)
(* state; a route is one action, or one action per await where requests    *)
(* interleave.  A provider call reads the client's credentials when it is  *)
(* issued.  The generate routes map what the AI provider throws to a       *)
(* response; the content sent to the provider at publish and the slug of   *)
(* a post are functions of texts, applied to inputs drawn in Init.         *)
(*                                                                         *)
(* Frontend: the cookies, the location and the chain of pending requests   *)
(* of the axios instance are the state; the answer of the server to the    *)
(* pending request, with the response interceptor, is the action.          *)
(***************************************************************************)
EXTENDS Integers, Sequences, FiniteSets, TLC

\* ------------------------------------------------------------------ bounds
MaxTasks == 1          \* rows of the Task table
MaxNow   == 2          \* last clock tick of the task requests
MaxUsers == 2          \* rows of the User table created by signup
MaxTokens == 2         \* refresh tokens generated by requests sent one by one
MaxConcTokens == 3     \* refresh tokens generated by concurrent requests
DayTicks == 2          \* clock ticks per calendar day
MaxTotal == 47         \* records a list query counts
MaxLimit == 20         \* largest page size requested
MaxPage == 4           \* largest page requested
WeekDays == 7
MonthDays == 30

\* ------------------------------------------------------------------ values
NoDate == -1           \* a null DateTime column / an absent date
NoUser == ""           \* a null or absent user id
NoText == <<>>         \* a null or absent text

UserIds == {"u1", "u2", "u3"}
ProjectIds == {"p1", "p2"}

Statuses == {"TODO", "IN_PROGRESS", "IN_REVIEW", "COMPLETED", "CANCELLED"}
Priorities == {"LOW", "MEDIUM", "HIGH", "URGENT"}
DueBuckets == {"overdue", "today", "this_week", "this_month"}

\* Project and ProjectMember rows: the seed's two projects; u1 has no
\* membership row in p2.
projects ==
  [p1 |-> [ownerId |-> "u1",
           members |-> {[userId |-> "u2", role |-> "ADMIN"],
                        [userId |-> "u3", role |-> "MEMBER"]}],
   p2 |-> [ownerId |-> "u2",
           members |-> {[userId |-> "u3", role |-> "MEMBER"]}]]

VARIABLES
  tasks,          \* Task table: sequence of rows, the id of a row is its index
  now,            \* the clock (new Date())
  resp,           \* the response of the last request
  users,          \* User table: id -> row
  refreshTokens,  \* RefreshToken table: set of rows
  nextToken,      \* the next value uuidv4() returns
  pc,             \* per request handler: the await it is suspended at
  loc,            \* per request handler: its local variables
  exchanges,      \* history: the successful refreshes, old and new token
  accessTokens,   \* history: the payloads generateAccessToken signed
  posts,          \* blog app, Post collection: _id -> document
  nextPostId,     \* blog app: the _id of the next Post document
  blogUsers,      \* blog app, User collection: _id -> document
  oauth2Client,   \* blog app: the credentials of the module-level OAuth2 client
  google,         \* the provider: revoked grants and the posts inserted
  events,         \* history: consent URLs requested, blog tokens signed and refreshed
  limiter,        \* blog app: the requests aiGenerationLimiter counted in its window
  client          \* frontend: the cookies, the location and the pending axios requests

vars == <<tasks, now, resp, users, refreshTokens, nextToken, pc, loc, exchanges,
          accessTokens, posts, nextPostId, blogUsers, oauth2Client, google, events,
          limiter, client>>

\* the tables and handlers of the auth module
authState == <<users, refreshTokens, nextToken, pc, loc, exchanges, accessTokens>>

\* the tables of the tasks module
taskState == <<tasks>>

\* the collections, the OAuth2 client, the provider and the rate limiter of the
\* blog app, and its frontend
blogState == <<posts, nextPostId, blogUsers, oauth2Client, google, events,
               limiter, client>>

\* ------------------------------------------------------------------ strings
LowerChar(c) ==
  CASE c = "A" -> "a" [] c = "P" -> "p" [] c = "I" -> "i" [] c = "D" -> "d"
    [] c = "O" -> "o" [] c = "C" -> "c" [] OTHER -> c

ToLower(s) == [i \in 1..Len(s) |-> LowerChar(s[i])]

\* Prisma { contains: sub, mode: 'insensitive' }; a null column never matches
Contains(s, sub) ==
  /\ s # NoText
  /\ \E i \in 1..(Len(s) - Len(sub) + 1) :
        SubSeq(ToLower(s), i, i + Len(sub) - 1) = ToLower(sub)

\* ------------------------------------------------------------------ access
\* project: { OR: [{ ownerId: u }, { members: { some: { userId: u } } }] }
ProjectAccess(p, u) ==
  \/ projects[p].ownerId = u
  \/ \E m \in projects[p].members : m.userId = u

\* project: { OR: [{ ownerId: u }, { members: { some: { userId: u, role in OWNER, ADMIN } } }] }
ProjectManage(p, u) ==
  \/ projects[p].ownerId = u
  \/ \E m \in projects[p].members : m.userId = u /\ m.role \in {"OWNER", "ADMIN"}

\* OR: [{ creatorId: u }, { assigneeId: u }, { project: ... }]
Visible(t, u) ==
  \/ t.creatorId = u
  \/ t.assigneeId = u
  \/ ProjectAccess(t.projectId, u)

\* the access clause of updateTask
Updatable(t, u) ==
  \/ t.creatorId = u
  \/ t.assigneeId = u
  \/ ProjectManage(t.projectId, u)

\* ------------------------------------------------------------------ dates
\* new Date(now.getFullYear(), now.getMonth(), now.getDate()): local midnight
Today(n) == n - (n % DayTicks)
Tomorrow(n) == Today(n) + DayTicks
WeekEnd(n) == Today(n) + WeekDays * DayTicks
\* new Date(y, m + 1, d): the same day of the next month, months of MonthDays days
MonthEnd(n) == Today(n) + MonthDays * DayTicks

\* ------------------------------------------------------------------ getTasks
\* f with key k set to v, as the assignment where.k = v
Override(f, k, v) == [x \in (DOMAIN f) \cup {k} |-> IF x = k THEN v ELSE f[x]]

VisibleClause(u) == [op |-> "visible", userId |-> u]

SearchClause(term) == [op |-> "search", term |-> term]

\* case 'overdue' that compares with the clock instead of local midnight and
\* keeps cancelled tasks
OverdueWhereNow(w, n) ==
  Override(Override(w, "dueDate", [gte |-> NoDate, lt |-> n]),
           "status", [op |-> "notIn", values |-> {"COMPLETED"}])

\* case 'overdue' of the switch
OverdueWhere(w, n) ==
  Override(Override(w, "dueDate", [gte |-> NoDate, lt |-> Today(n)]),
           "status", [op |-> "notIn", values |-> {"COMPLETED", "CANCELLED"}])

\* the switch over the dueDate bucket
DueDateWhere(w, bucket, n) ==
  CASE bucket = "overdue" -> OverdueWhere(w, n)
    [] bucket = "today" ->
         Override(w, "dueDate", [gte |-> Today(n), lt |-> Tomorrow(n)])
    [] bucket = "this_week" ->
         Override(w, "dueDate", [gte |-> Today(n), lt |-> WeekEnd(n)])
    [] bucket = "this_month" ->
         Override(w, "dueDate", [gte |-> Today(n), lt |-> MonthEnd(n)])
    [] OTHER -> w

\* if (search) where.OR = [title contains, description contains]
SearchWhere(w, search) ==
  IF search # NoText THEN Override(w, "OR", SearchClause(search)) ELSE w

\* the where clause getTasks builds for user u, filters f at clock n
BuildWhere(u, f, n) ==
  LET w0 == [k \in {"OR"} |-> VisibleClause(u)]
      w1 == IF f.status # "" THEN Override(w0, "status", [op |-> "equals", value |-> f.status]) ELSE w0
      w2 == IF f.priority # "" THEN Override(w1, "priority", [value |-> f.priority]) ELSE w1
      w3 == IF f.assigneeId # "" THEN Override(w2, "assigneeId", [value |-> f.assigneeId]) ELSE w2
      w4 == IF f.projectId # "" THEN Override(w3, "projectId", [value |-> f.projectId]) ELSE w3
      w5 == SearchWhere(w4, f.search)
  IN  IF f.dueDate # "" THEN DueDateWhere(w5, f.dueDate, n) ELSE w5

\* does row t satisfy the condition c stored under key k
Sat(t, k, c) ==
  CASE k = "OR" ->
         IF c.op = "visible" THEN Visible(t, c.userId)
         ELSE Contains(t.title, c.term) \/ Contains(t.description, c.term)
    [] k = "status" ->
         IF c.op = "equals" THEN t.status = c.value ELSE t.status \notin c.values
    [] k = "dueDate" ->
         /\ t.dueDate # NoDate
         /\ (c.gte = NoDate \/ t.dueDate >= c.gte)
         /\ t.dueDate < c.lt
    [] OTHER -> t[k] = c.value

\* Prisma: every key of the where object must hold
Matches(t, w) == \A k \in DOMAIN w : Sat(t, k, w[k])

\* the rows prisma.task.findMany / count select
TaskWhere(u, f, n) ==
  {id \in DOMAIN tasks : Matches(tasks[id], BuildWhere(u, f, n))}

\* orderBy: { [sortBy]: sortOrder }; a null dueDate sorts as the largest value,
\* createdAt grows with the id (rows are created one after the other)
SortKey(t, sortBy) ==
  IF sortBy = "dueDate"
  THEN (IF t.dueDate = NoDate THEN MonthEnd(MaxNow) + MonthEnd(MaxNow) ELSE t.dueDate)
  ELSE t.id

\* the orders the database may return the rows of S in (ties in any order)
Orders(S, sortBy, sortOrder) ==
  {q \in [1..Cardinality(S) -> S] :
     /\ \A i, j \in DOMAIN q : i # j => q[i] # q[j]
     /\ \A i, j \in DOMAIN q : i < j =>
          IF sortOrder = "asc"
          THEN SortKey(tasks[q[i]], sortBy) <= SortKey(tasks[q[j]], sortBy)
          ELSE SortKey(tasks[q[i]], sortBy) >= SortKey(tasks[q[j]], sortBy)}

\* skip, take
Page(q, skip, take) ==
  [i \in 1..(IF Len(q) - skip < 0 THEN 0
             ELSE IF Len(q) - skip < take THEN Len(q) - skip ELSE take)
     |-> q[skip + i]]

\* a division that rounds down
FloorDiv(total, limit) == total \div limit

\* Math.ceil(total / limit)
CeilDiv(total, limit) == (total + limit - 1) \div limit

Pagination(page, limit, total) ==
  [page |-> page, limit |-> limit, total |-> total,
   totalPages |-> CeilDiv(total, limit),
   hasNextPage |-> page < CeilDiv(total, limit),
   hasPrevPage |-> page > 1]

\* the filters of a request: "" / <<>> is an absent query parameter
NoFilters ==
  [status |-> "", priority |-> "", assigneeId |-> "", projectId |-> "",
   search |-> NoText, dueDate |-> "", page |-> 1, limit |-> 20,
   sortBy |-> "createdAt", sortOrder |-> "desc"]

SearchTerms == {<<"a", "P">>, <<"D">>}

\* every combination of the filter values the model draws from
AllFilters ==
  [status : {""} \cup Statuses, priority : {"", "MEDIUM", "HIGH"},
   assigneeId : {"", "u3"}, projectId : {"", "p1", "p2"},
   search : {NoText} \cup SearchTerms, dueDate : {""} \cup DueBuckets,
   page : {1, 2}, limit : {1, 20},
   sortBy : {"createdAt", "dueDate"}, sortOrder : {"asc", "desc"}]

\* the number of filters of f that differ from the defaults
Supplied(f) == Cardinality({k \in DOMAIN f : f[k] # NoFilters[k]})

\* the requests the clients send: no filter, one filter, and a few pairs
QueryInputs ==
  {NoFilters}
  \cup {[NoFilters EXCEPT !.status = v] : v \in {"TODO", "COMPLETED"}}
  \cup {[NoFilters EXCEPT !.priority = v] : v \in {"MEDIUM", "HIGH"}}
  \cup {[NoFilters EXCEPT !.assigneeId = "u3"]}
  \cup {[NoFilters EXCEPT !.projectId = v] : v \in ProjectIds}
  \cup {[NoFilters EXCEPT !.search = v] : v \in SearchTerms}
  \cup {[NoFilters EXCEPT !.dueDate = v] : v \in DueBuckets}
  \cup {[NoFilters EXCEPT !.limit = 1, !.page = v] : v \in {1, 2}}
  \cup {[NoFilters EXCEPT !.sortBy = "dueDate", !.sortOrder = v] : v \in {"asc", "desc"}}
  \cup {[NoFilters EXCEPT !.dueDate = "overdue", !.status = v] : v \in {"TODO", "COMPLETED"}}
  \cup {[NoFilters EXCEPT !.search = <<"a", "P">>, !.projectId = "p1"]}

\* TaskController.getTasks / TaskService.getTasks
GetTasks(u, f) ==
  LET S == TaskWhere(u, f, now)
  IN  /\ \E q \in Orders(S, f.sortBy, f.sortOrder) :
            resp' = [op |-> "getTasks", code |-> 200, userId |-> u, filters |-> f,
                     at |-> now,
                     tasks |-> [i \in DOMAIN Page(q, (f.page - 1) * f.limit, f.limit)
                                  |-> tasks[Page(q, (f.page - 1) * f.limit, f.limit)[i]]],
                     pagination |-> Pagination(f.page, f.limit, Cardinality(S))]
      /\ UNCHANGED <<tasks, now>>

\* ------------------------------------------------------------------ createTask
\* column defaults of the Task table
DefaultStatus == "TODO"
DefaultPriority == "MEDIUM"

Titles == {<<"A", "p", "i">>, <<"d", "o", "c">>}
Descriptions == {<<"a", "P", "I">>}
DueDates == {1, 5}

\* request bodies of POST /api/tasks ("" / <<>> / NoDate: field not sent)
CreateBodies ==
  [title : Titles, description : {NoText} \cup Descriptions,
   projectId : ProjectIds, assigneeId : {NoUser, "u1", "u3"},
   priority : {"", "HIGH"}, dueDate : {NoDate} \cup DueDates]

\* TaskController.createTask / TaskService.createTask
CreateTask(creatorId, data) ==
  /\ Len(tasks) < MaxTasks
  /\ UNCHANGED now
  /\ IF ~ProjectAccess(data.projectId, creatorId)
     THEN /\ resp' = [op |-> "createTask", code |-> 404]
          /\ UNCHANGED tasks
     ELSE IF data.assigneeId # NoUser /\ ~ProjectAccess(data.projectId, data.assigneeId)
     THEN /\ resp' = [op |-> "createTask", code |-> 400]
          /\ UNCHANGED tasks
     ELSE LET row == [id |-> Len(tasks) + 1,
                      title |-> data.title,
                      description |-> data.description,
                      status |-> DefaultStatus,
                      priority |-> IF data.priority = "" THEN DefaultPriority
                                   ELSE data.priority,
                      creatorId |-> creatorId,
                      assigneeId |-> data.assigneeId,
                      projectId |-> data.projectId,
                      dueDate |-> data.dueDate,
                      completedAt |-> NoDate]
          IN  /\ tasks' = Append(tasks, row)
              /\ resp' = [op |-> "createTask", code |-> 201]

\* ------------------------------------------------------------------ updateTask
\* the body of PUT /api/tasks/:id after the controller removed the undefined
\* values ("" / <<>> / NoDate: key not present)
NoUpdate ==
  [title |-> NoText, description |-> NoText, status |-> "", priority |-> "",
   assigneeId |-> NoUser, dueDate |-> NoDate]

Has(data, k) == data[k] # NoUpdate[k]

\* the completedAt written together with the update: NoChange when untouched
NoChange == -2

CompletedAtUpdate(data, existingTask, n) ==
  IF data.status = "COMPLETED" /\ existingTask.status # "COMPLETED" THEN n
  ELSE IF data.status # "COMPLETED" /\ existingTask.status = "COMPLETED" THEN NoDate
  ELSE NoChange

\* prisma.task.update({ data: updateData }): the keys present overwrite the row
ApplyUpdate(t, data, completedAt) ==
  [k \in DOMAIN t |->
     IF k = "completedAt" THEN (IF completedAt = NoChange THEN t[k] ELSE completedAt)
     ELSE IF k \in DOMAIN data /\ Has(data, k) THEN data[k]
     ELSE t[k]]

UpdateBodies ==
  [title : {NoText} \cup Titles, description : {NoText} \cup Descriptions,
   status : {""} \cup Statuses, priority : {"", "HIGH"},
   assigneeId : {NoUser, "u1", "u3"}, dueDate : {NoDate} \cup DueDates]

\* the number of fields a body carries
Fields(data) == Cardinality({k \in DOMAIN data : Has(data, k)})

\* TaskController.updateTask / TaskService.updateTask
UpdateTask(userId, taskId, data) ==
  /\ UNCHANGED now
  /\ IF ~(taskId \in DOMAIN tasks /\ Updatable(tasks[taskId], userId))
     THEN /\ resp' = [op |-> "updateTask", code |-> 404]
          /\ UNCHANGED tasks
     ELSE LET existingTask == tasks[taskId]
              completedAt == CompletedAtUpdate(data, existingTask, now)
          IN  IF /\ data.assigneeId # NoUser
                 /\ data.assigneeId # existingTask.assigneeId
                 /\ ~ProjectAccess(existingTask.projectId, data.assigneeId)
              THEN /\ resp' = [op |-> "updateTask", code |-> 400]
                   /\ UNCHANGED tasks
              ELSE /\ tasks' = [tasks EXCEPT ![taskId] = ApplyUpdate(@, data, completedAt)]
                   /\ resp' = [op |-> "updateTask", code |-> 200]

\* the clock advances
Tick ==
  /\ now < MaxNow
  /\ now' = now + 1
  /\ UNCHANGED <<tasks, resp>>

\* ================================================================== auth module
Procs == {1, 2}                 \* request handlers that may be in flight
UserOrder == <<"u1", "u2", "u3">>

\* e-mail addresses: <<"A">> is <<"a">> written in upper case
Emails == {<<"a">>, <<"A">>, <<"d">>}
Passwords == {"Secret01", "Secret02"}
NoToken == 0                    \* a string that is no issued token

\* errorHandler: the status of an error that carries no statusCode
UnhandledStatus == 500

\* bcrypt.hash / bcrypt.compare
Hash(password) == [bcrypt |-> password]
VerifyPassword(password, hashedPassword) == hashedPassword = Hash(password)

\* new Date(Date.now() + 7 * 24 * 60 * 60 * 1000)
RefreshTtl == WeekDays * DayTicks

\* the users the seed script creates
SeedUsers ==
  [u \in UserIds |->
     [email |-> IF u = "u1" THEN <<"a">> ELSE IF u = "u2" THEN <<"d">> ELSE <<"o">>,
      password |-> Hash("Secret01"), isActive |-> TRUE]]

NoLoc == [email |-> <<>>, password |-> "", newPassword |-> "", userId |-> NoUser,
          token |-> NoToken, rowId |-> NoToken]

\* prisma.user.findUnique({ where: { email } })
UsersByEmail(email) == {u \in DOMAIN users : users[u].email = email}

\* prisma.refreshToken.findUnique({ where: { token } })
RowsByToken(t) == {r \in refreshTokens : r.token = t}

RowsById(id) == {r \in refreshTokens : r.id = id}

RowsOfUser(u) == {r \in refreshTokens : r.userId = u}

\* prisma.refreshToken.create of a new uuid for user u, written by handler p
CreateToken(u) ==
  /\ refreshTokens' = refreshTokens \cup
       {[id |-> nextToken, token |-> nextToken, userId |-> u,
         expiresAt |-> now + RefreshTtl]}
  /\ nextToken' = nextToken + 1

\* handlers suspended before a write that generates a refresh token
Generating == {q \in Procs : pc[q] \in {"signupCreate", "signupToken", "loginToken",
                                         "refreshUpdate"}}

\* handler p may start: it is not running
Idle(p) == pc[p] = "idle"

\* fewer than k refresh tokens are generated or about to be
TokensLeft(k) == nextToken + Cardinality(Generating) <= k

\* fewer than MaxUsers users are created or about to be
UsersLeft ==
  Cardinality(DOMAIN users) + Cardinality({q \in Procs : pc[q] = "signupCreate"}) < MaxUsers

Respond(p, r) ==
  /\ resp' = r
  /\ pc' = [pc EXCEPT ![p] = "idle"]
  /\ loc' = [loc EXCEPT ![p] = NoLoc]

Suspend(p, at, l) ==
  /\ pc' = [pc EXCEPT ![p] = at]
  /\ loc' = [loc EXCEPT ![p] = l]
  /\ UNCHANGED resp

AuthResp(op, code) ==
  [op |-> op, code |-> code, userId |-> NoUser, token |-> NoToken, newToken |-> NoToken]

\* ------------------------------------------------------------------ signup
\* signup up to the first write: findUnique by lower-cased e-mail, hashPassword
SignupFind(p, email, password) ==
  /\ Idle(p)
  /\ UNCHANGED <<users, refreshTokens, nextToken, exchanges, now>>
  /\ IF UsersByEmail(ToLower(email)) # {}
     THEN Respond(p, AuthResp("signup", 400))
     ELSE Suspend(p, "signupCreate",
                  [NoLoc EXCEPT !.email = ToLower(email), !.password = password])

\* prisma.user.create: the e-mail column is unique, a duplicate raises a Prisma
\* error that errorHandler answers with its default status 500
SignupCreate(p) ==
  /\ pc[p] = "signupCreate"
  /\ UNCHANGED <<refreshTokens, nextToken, exchanges, now>>
  /\ IF UsersByEmail(loc[p].email) # {}
     THEN /\ Respond(p, AuthResp("signup", UnhandledStatus))
          /\ UNCHANGED users
     ELSE LET id == UserOrder[Cardinality(DOMAIN users) + 1]
          IN  /\ users' = [u \in (DOMAIN users) \cup {id} |->
                             IF u = id
                             THEN [email |-> loc[p].email,
                                   password |-> Hash(loc[p].password),
                                   isActive |-> TRUE]
                             ELSE users[u]]
              /\ Suspend(p, "signupToken", [loc[p] EXCEPT !.userId = id])

\* prisma.refreshToken.create and the 201 response
SignupToken(p) ==
  /\ pc[p] = "signupToken"
  /\ CreateToken(loc[p].userId)
  /\ Respond(p, [AuthResp("signup", 201) EXCEPT !.userId = loc[p].userId,
                                                 !.newToken = nextToken])
  /\ UNCHANGED <<users, exchanges, now>>

\* ------------------------------------------------------------------ login
\* the decision of login for the credentials against the User table usrs:
\* findUnique by lower-cased e-mail, isActive, verifyPassword
LoginDecision(usrs, email, password) ==
  LET found == {u \in DOMAIN usrs : usrs[u].email = ToLower(email)}
  IN  IF found = {} THEN 401
      ELSE LET user == usrs[CHOOSE u \in found : TRUE]
           IN  IF ~user.isActive THEN 401
               ELSE IF ~VerifyPassword(password, user.password) THEN 401
               ELSE 200

LoginCode(email, password) == LoginDecision(users, email, password)

\* login up to the write: findUnique, isActive, verifyPassword
LoginFind(p, email, password) ==
  /\ Idle(p)
  /\ UNCHANGED <<users, refreshTokens, nextToken, exchanges, now>>
  /\ IF LoginCode(email, password) # 200
     THEN Respond(p, AuthResp("login", 401))
     ELSE Suspend(p, "loginToken",
                  [NoLoc EXCEPT !.userId = CHOOSE u \in UsersByEmail(ToLower(email)) : TRUE,
                                !.password = password])

\* a login that replaces the sessions of the user by the new one
LoginTokenSingle(p) ==
  /\ pc[p] = "loginToken"
  /\ refreshTokens' = (refreshTokens \ RowsOfUser(loc[p].userId)) \cup
       {[id |-> nextToken, token |-> nextToken, userId |-> loc[p].userId,
         expiresAt |-> now + RefreshTtl]}
  /\ nextToken' = nextToken + 1
  /\ Respond(p, [AuthResp("login", 200) EXCEPT !.userId = loc[p].userId,
                                                !.newToken = nextToken])
  /\ UNCHANGED <<users, exchanges, now>>

\* prisma.refreshToken.create and the 200 response
LoginToken(p) ==
  /\ pc[p] = "loginToken"
  /\ CreateToken(loc[p].userId)
  /\ Respond(p, [AuthResp("login", 200) EXCEPT !.userId = loc[p].userId,
                                                !.newToken = nextToken])
  /\ UNCHANGED <<users, exchanges, now>>

\* ------------------------------------------------------------------ refreshToken
\* the decision of refreshToken for the presented string t against the tables
\* rows and usrs at clock value at: findUnique by token, expiry, isActive
RefreshDecision(rows, usrs, at, t) ==
  LET found == {r \in rows : r.token = t}
  IN  IF found = {} THEN 401
      ELSE LET storedToken == CHOOSE r \in found : TRUE
           IN  IF storedToken.expiresAt < at THEN 401
               ELSE IF ~usrs[storedToken.userId].isActive THEN 401
               ELSE 200

RefreshCode(t) == RefreshDecision(refreshTokens, users, now, t)

\* refreshToken up to its write: findUnique with the user, the expiry and
\* isActive checks
RefreshFind(p, t) ==
  /\ Idle(p)
  /\ UNCHANGED <<users, refreshTokens, nextToken, exchanges, now>>
  /\ IF RowsByToken(t) = {}
     THEN Respond(p, [AuthResp("refresh", 401) EXCEPT !.token = t])
     ELSE LET storedToken == CHOOSE r \in RowsByToken(t) : TRUE
          IN  IF storedToken.expiresAt < now
              THEN Suspend(p, "refreshDelete",
                           [NoLoc EXCEPT !.token = t, !.rowId = storedToken.id])
              ELSE IF ~users[storedToken.userId].isActive
              THEN Respond(p, [AuthResp("refresh", 401) EXCEPT !.token = t])
              ELSE Suspend(p, "refreshUpdate",
                           [NoLoc EXCEPT !.token = t, !.rowId = storedToken.id,
                                         !.userId = storedToken.userId])

\* prisma.refreshToken.delete({ where: { id } }) of the expired row, then 401;
\* a missing row raises a Prisma error (500)
RefreshDelete(p) ==
  /\ pc[p] = "refreshDelete"
  /\ UNCHANGED <<users, nextToken, exchanges, now>>
  /\ IF RowsById(loc[p].rowId) = {}
     THEN /\ Respond(p, [AuthResp("refresh", UnhandledStatus) EXCEPT !.token = loc[p].token])
          /\ UNCHANGED refreshTokens
     ELSE /\ refreshTokens' = refreshTokens \ RowsById(loc[p].rowId)
          /\ Respond(p, [AuthResp("refresh", 401) EXCEPT !.token = loc[p].token])

\* a refresh that stores the new token in a new row and keeps the presented one
RefreshUpdateInsert(p) ==
  /\ pc[p] = "refreshUpdate"
  /\ UNCHANGED <<users, now>>
  /\ CreateToken(loc[p].userId)
  /\ exchanges' = exchanges \cup {[old |-> loc[p].token, new |-> nextToken]}
  /\ Respond(p, [AuthResp("refresh", 200) EXCEPT !.token = loc[p].token,
                                                  !.newToken = nextToken,
                                                  !.userId = loc[p].userId])

\* prisma.refreshToken.update({ where: { id }, data: { token, expiresAt } }) and
\* the 200 response; a missing row raises a Prisma error (500)
RefreshUpdate(p) ==
  /\ pc[p] = "refreshUpdate"
  /\ UNCHANGED <<users, now>>
  /\ IF RowsById(loc[p].rowId) = {}
     THEN /\ Respond(p, [AuthResp("refresh", UnhandledStatus) EXCEPT !.token = loc[p].token])
          /\ UNCHANGED <<refreshTokens, nextToken, exchanges>>
     ELSE /\ refreshTokens' =
               {IF r.id = loc[p].rowId
                THEN [r EXCEPT !.token = nextToken, !.expiresAt = now + RefreshTtl]
                ELSE r : r \in refreshTokens}
          /\ nextToken' = nextToken + 1
          /\ exchanges' = exchanges \cup
               {[old |-> loc[p].token, new |-> nextToken]}
          /\ Respond(p, [AuthResp("refresh", 200) EXCEPT !.token = loc[p].token,
                                                          !.newToken = nextToken,
                                                          !.userId = loc[p].userId])

\* ------------------------------------------------------------------ logout
\* a logout that ends every session of the owner of the token
LogoutRowsOfOwner(t) == {r \in refreshTokens : \E o \in RowsByToken(t) : r.userId = o.userId}

\* deleteMany({ where: { token } })
LogoutRows(t) == RowsByToken(t)

\* AuthController.logout / AuthService.logout
Logout(p, t) ==
  /\ Idle(p)
  /\ refreshTokens' = IF t = NoToken THEN refreshTokens ELSE refreshTokens \ LogoutRows(t)
  /\ Respond(p, [AuthResp("logout", 200) EXCEPT !.token = t])
  /\ UNCHANGED <<users, nextToken, exchanges, now>>

\* the authenticate middleware for a bearer of user u's access token
Authenticated(u) == u \in DOMAIN users /\ users[u].isActive

\* deleteMany({ where: { userId } })
LogoutAllRows(u) == RowsOfUser(u)

\* authenticate, AuthController.logoutAll / AuthService.logoutAll
LogoutAll(p, u) ==
  /\ Idle(p)
  /\ UNCHANGED <<users, nextToken, exchanges, now>>
  /\ IF ~Authenticated(u)
     THEN /\ Respond(p, [AuthResp("logoutAll", 401) EXCEPT !.userId = u])
          /\ UNCHANGED refreshTokens
     ELSE /\ refreshTokens' = refreshTokens \ LogoutAllRows(u)
          /\ Respond(p, [AuthResp("logoutAll", 200) EXCEPT !.userId = u])

\* ------------------------------------------------------------------ changePassword
\* authenticate, then changePassword up to its first write: findUnique and
\* verifyPassword of the current password
ChangePasswordFind(p, u, currentPassword, newPassword) ==
  /\ Idle(p)
  /\ UNCHANGED <<users, refreshTokens, nextToken, exchanges, now>>
  /\ IF ~Authenticated(u)
     THEN Respond(p, [AuthResp("changePassword", 401) EXCEPT !.userId = u])
     ELSE IF ~VerifyPassword(currentPassword, users[u].password)
     THEN Respond(p, [AuthResp("changePassword", 400) EXCEPT !.userId = u])
     ELSE Suspend(p, "passwordUpdate",
                  [NoLoc EXCEPT !.userId = u, !.newPassword = newPassword])

\* prisma.user.update({ data: { password: hashedNewPassword } })
ChangePasswordUpdate(p) ==
  /\ pc[p] = "passwordUpdate"
  /\ users' = [users EXCEPT ![loc[p].userId].password = Hash(loc[p].newPassword)]
  /\ Suspend(p, "passwordLogoutAll", loc[p])
  /\ UNCHANGED <<refreshTokens, nextToken, exchanges, now>>

\* a password change that keeps the sessions of the user
ChangePasswordKeepSessions(p) ==
  /\ pc[p] = "passwordLogoutAll"
  /\ Respond(p, [AuthResp("changePassword", 200) EXCEPT !.userId = loc[p].userId])
  /\ UNCHANGED <<users, refreshTokens, nextToken, exchanges, now>>

\* this.logoutAll(userId) and the 200 response
ChangePasswordLogoutAll(p) ==
  /\ pc[p] = "passwordLogoutAll"
  /\ refreshTokens' = refreshTokens \ LogoutAllRows(loc[p].userId)
  /\ Respond(p, [AuthResp("changePassword", 200) EXCEPT !.userId = loc[p].userId])
  /\ UNCHANGED <<users, nextToken, exchanges, now>>

\* ================================================================== blog app
\* ------------------------------------------------------------------ values
BlogUserIds == {"b1", "b2"}

PostStatuses == {"draft", "published", "scheduled"}

HourTicks == 1                  \* 3600000 ms, the lifetime of a provider access token

\* blogspot sub-document of a Post that was never published to Blogspot
\* (a provider post id and its URL are the number of the provider's post)
NoBlogspot == [postId |-> 0, publishedAt |-> NoDate, url |-> 0, lastSyncAt |-> NoDate]

\* an absent provider access token; a token names the Google account that
\* granted it and the time it expires
NoAccessToken == [acct |-> "", exp |-> NoDate]

\* user.blogspotSettings === undefined; a refresh token is the name of the
\* Google account that granted it
NoSettings ==
  [accessToken |-> NoAccessToken, refreshToken |-> "", expiresAt |-> NoDate,
   blogId |-> "", blogUrl |-> ""]

\* new google.auth.OAuth2(...): no credentials set
NoCredentials == [access_token |-> NoAccessToken, refresh_token |-> ""]

NoEventToken == [id |-> NoUser, iat |-> NoDate, signed |-> FALSE]

\* the blog app before its first request: no document, no consent
\* a browser without cookies and without a pending request
NoClient ==
  [cookies |-> [accessToken |-> FALSE, refreshToken |-> FALSE],
   location |-> "/", calls |-> <<>>, sent |-> 0, retried |-> 0]

NoBlog ==
  /\ limiter = 0
  /\ client = NoClient
  /\ posts = <<>>
  /\ nextPostId = 1
  /\ blogUsers = <<>>
  /\ oauth2Client = NoCredentials
  /\ google = [revoked |-> {}, posts |-> <<>>]
  /\ events = {}
  /\ limiter = 0
  /\ client = NoClient

BlogResp(op, code) == [op |-> op, code |-> code]

\* ------------------------------------------------------------------ Post model
\* characters that /[^a-z0-9\s-]/g keeps
SlugKept == {"a", "p", "i", "d", "o", "c", " ", "-"}

RECURSIVE DropLeading(_, _)
DropLeading(s, c) ==
  IF s # <<>> /\ Head(s) = c THEN DropLeading(Tail(s), c) ELSE s

\* s.replace(/c+/g, by)
RECURSIVE ReplaceRuns(_, _, _)
ReplaceRuns(s, c, by) ==
  IF s = <<>> THEN <<>>
  ELSE IF Head(s) = c THEN <<by>> \o ReplaceRuns(DropLeading(Tail(s), c), c, by)
  ELSE <<Head(s)>> \o ReplaceRuns(Tail(s), c, by)

RECURSIVE DropTrailing(_, _)
DropTrailing(s, c) ==
  IF s # <<>> /\ s[Len(s)] = c THEN DropTrailing(SubSeq(s, 1, Len(s) - 1), c) ELSE s

\* String.prototype.trim
Trim(s) == DropTrailing(DropLeading(s, " "), " ")

\* the slug the pre-save hook derives from a title
Slugify(title) ==
  Trim(ReplaceRuns(ReplaceRuns(SelectSeq(ToLower(title), LAMBDA c : c \in SlugKept),
                               " ", "-"),
                   "-", "-"))

\* match of seo.slug: /^[a-z0-9]+(?:-[a-z0-9]+)*$/
MatchesSlug(s) ==
  /\ s # <<>>
  /\ \A i \in 1..Len(s) : s[i] \in SlugKept \ {" "}
  /\ s[1] # "-" /\ s[Len(s)] # "-"
  /\ \A i \in 1..(Len(s) - 1) : ~(s[i] = "-" /\ s[i + 1] = "-")

\* pre('save') slug hook: the slug of a document saved with this title and slug
PreSaveSlug(titleModified, title, slug) ==
  IF ~titleModified \/ slug # NoText THEN slug ELSE Slugify(title)

\* pre('save') publishedAt hook
PreSavePublishedAt(statusModified, status, publishedAt) ==
  IF statusModified /\ status = "published" /\ publishedAt = NoDate THEN now ELSE publishedAt

\* the unique sparse index on seo.slug admits slug for document id
SlugFree(id, slug) ==
  slug = NoText \/ \A other \in DOMAIN posts \ {id} : posts[other].slug # slug

Without(f, id) == [k \in DOMAIN f \ {id} |-> f[k]]

\* ------------------------------------------------------------------ posts routes
\* POST /api/posts by user u
CreatePost(u, title, slug, scheduledFor) ==
  LET status == IF scheduledFor # NoDate /\ scheduledFor > now THEN "scheduled" ELSE "draft"
      doc == [userId |-> u, title |-> Trim(title),
              slug |-> PreSaveSlug(TRUE, Trim(title), ToLower(slug)),
              status |-> status, scheduledFor |-> scheduledFor,
              publishedAt |-> PreSavePublishedAt(TRUE, status, NoDate),
              blogspot |-> NoBlogspot]
  IN /\ IF ~SlugFree(nextPostId, doc.slug)
        THEN /\ resp' = BlogResp("createPost", 500)
             /\ UNCHANGED <<posts, nextPostId>>
        ELSE /\ posts' = posts @@ (nextPostId :> doc)
             /\ nextPostId' = nextPostId + 1
             /\ resp' = [op |-> "createPost", code |-> 201, id |-> nextPostId]
     /\ UNCHANGED <<blogUsers, oauth2Client, google, events, now>>

\* a PUT body that sets nothing
NoPostUpdate ==
  [title |-> NoText, status |-> "", scheduledFor |-> NoDate, publishedAt |-> NoDate,
   slug |-> NoText, blogspotPostId |-> 0, userId |-> NoUser]

\* the status $set by PUT: derived from scheduledFor when that is supplied
UpdateStatus(body) ==
  IF body.scheduledFor # NoDate
  THEN IF body.scheduledFor > now THEN "scheduled" ELSE "draft"
  ELSE body.status

\* { $set: updateFields } applied to document d
SetFields(d, body) ==
  [d EXCEPT
     !.title = IF body.title # NoText THEN body.title ELSE @,
     !.status = IF UpdateStatus(body) # "" THEN UpdateStatus(body) ELSE @,
     !.scheduledFor = IF body.scheduledFor # NoDate THEN body.scheduledFor ELSE @,
     !.publishedAt = IF body.publishedAt # NoDate THEN body.publishedAt ELSE @,
     !.slug = IF body.slug # NoText THEN ToLower(body.slug) ELSE @,
     !.blogspot.postId = IF body.blogspotPostId # 0 THEN body.blogspotPostId ELSE @,
     !.userId = IF body.userId # NoUser THEN body.userId ELSE @]

\* PUT /api/posts/:id by user u
UpdatePost(u, id, body) ==
  /\ UNCHANGED <<nextPostId, blogUsers, oauth2Client, google, events, now>>
  /\ IF id \notin DOMAIN posts
     THEN resp' = BlogResp("updatePost", 404) /\ UNCHANGED posts
     ELSE IF posts[id].userId # u
     THEN resp' = BlogResp("updatePost", 403) /\ UNCHANGED posts
     ELSE IF UpdateStatus(body) \notin PostStatuses \cup {""}
             \/ ~SlugFree(id, SetFields(posts[id], body).slug)
     THEN resp' = BlogResp("updatePost", 500) /\ UNCHANGED posts
     ELSE /\ posts' = [posts EXCEPT ![id] = SetFields(@, body)]
          /\ resp' = BlogResp("updatePost", 200)

\* GET /api/posts/:id by user u.  The route compares the string of the populated
\* userId with the id of u: how the library prints a populated document decides
\* whether the owner passes, and no other user's id equals it.
GetPost(u, id, printsId) ==
  /\ UNCHANGED <<posts, nextPostId, blogUsers, oauth2Client, google, events, now>>
  /\ resp' = IF id \notin DOMAIN posts THEN BlogResp("getPost", 404)
             ELSE IF ~(printsId /\ posts[id].userId = u) THEN BlogResp("getPost", 403)
             ELSE BlogResp("getPost", 200)

\* DELETE /api/posts/:id by user u
DeletePost(u, id) ==
  /\ UNCHANGED <<nextPostId, blogUsers, oauth2Client, google, events, now>>
  /\ IF id \notin DOMAIN posts
     THEN resp' = BlogResp("deletePost", 404) /\ UNCHANGED posts
     ELSE IF posts[id].userId # u
     THEN resp' = BlogResp("deletePost", 403) /\ UNCHANGED posts
     ELSE IF posts[id].status = "published" /\ posts[id].blogspot.postId # 0
     THEN resp' = BlogResp("deletePost", 400) /\ UNCHANGED posts
     ELSE /\ posts' = Without(posts, id)
          /\ resp' = BlogResp("deletePost", 200)

\* POST /api/posts/:id/publish by user u
PublishPost(u, id) ==
  /\ UNCHANGED <<nextPostId, blogUsers, oauth2Client, google, events, now>>
  /\ IF id \notin DOMAIN posts
     THEN resp' = BlogResp("publishPost", 404) /\ UNCHANGED posts
     ELSE IF posts[id].userId # u
     THEN resp' = BlogResp("publishPost", 403) /\ UNCHANGED posts
     ELSE IF posts[id].status = "published"
     THEN resp' = BlogResp("publishPost", 400) /\ UNCHANGED posts
     ELSE /\ posts' = [posts EXCEPT
                         ![id].status = "published",
                         ![id].publishedAt = PreSavePublishedAt(TRUE, "published", now),
                         ![id].slug = PreSaveSlug(FALSE, posts[id].title, @)]
          /\ resp' = BlogResp("publishPost", 200)

\* POST /api/posts/:id/unpublish by user u
UnpublishPost(u, id) ==
  /\ UNCHANGED <<nextPostId, blogUsers, oauth2Client, google, events, now>>
  /\ IF id \notin DOMAIN posts
     THEN resp' = BlogResp("unpublishPost", 404) /\ UNCHANGED posts
     ELSE IF posts[id].userId # u
     THEN resp' = BlogResp("unpublishPost", 403) /\ UNCHANGED posts
     ELSE IF posts[id].status # "published"
     THEN resp' = BlogResp("unpublishPost", 400) /\ UNCHANGED posts
     ELSE /\ posts' = [posts EXCEPT
                         ![id].status = "draft",
                         ![id].publishedAt = PreSavePublishedAt(TRUE, "draft", NoDate)]
          /\ resp' = BlogResp("unpublishPost", 200)

\* ------------------------------------------------------------------ provider
\* Google accounts; g1 and g2 carry the e-mail of the blog users b1 and b2,
\* g3 the e-mail of nobody registered
Accounts == {"g1", "g2", "g3"}

AccountEmail(g) == IF g = "g1" THEN "b1@x" ELSE IF g = "g2" THEN "b2@x" ELSE "g3@x"

\* blogger.blogs.listByUser for the account: g3 has no blog
BlogsOf(g) ==
  IF g = "g1" THEN <<[id |-> "blogA", url |-> "urlA"]>>
  ELSE IF g = "g2" THEN <<[id |-> "blogB", url |-> "urlB"]>>
  ELSE <<>>

\* an authorization code names the account that consented and whether the
\* grant is offline (carries a refresh token)
NoCode == [acct |-> "", offline |-> FALSE]
BadCode == [acct |-> "bad", offline |-> FALSE]
Codes == {NoCode, BadCode} \cup [acct : Accounts, offline : BOOLEAN]

\* oauth2Client.getToken(code): the tokens of a valid code
GetToken(code) ==
  [access_token |-> [acct |-> code.acct, exp |-> now + HourTicks],
   refresh_token |-> IF code.offline THEN code.acct ELSE ""]

\* the provider serves a call made with these credentials
Authorized(auth) == auth.access_token.acct \in Accounts

\* the provider renews the grant behind a refresh token
Renewable(rt) == rt \in Accounts \ google.revoked

\* the owner of a Google account withdraws the grant
Revoke(g) ==
  /\ g \notin google.revoked
  /\ google' = [google EXCEPT !.revoked = @ \cup {g}]
  /\ UNCHANGED <<posts, nextPostId, blogUsers, oauth2Client, events, now, resp, pc, loc>>

\* ------------------------------------------------------------------ blogspot routes
\* local variables of a blogspot handler
BlogLoc ==
  [user |-> NoUser, settings |-> NoSettings, postId |-> 0, code |-> NoCode,
   tokens |-> NoCredentials, email |-> "", auth |-> NoCredentials,
   checkedAt |-> NoDate, refreshed |-> FALSE, publishedAt |-> NoDate, inserted |-> 0]

\* userSchema.methods.isBlogspotConnected
IsBlogspotConnected(settings) ==
  settings.accessToken # NoAccessToken /\ settings.refreshToken # ""

\* User.findOne({ email })
BlogUsersByEmail(email) == {u \in DOMAIN blogUsers : blogUsers[u].email = email}

\* oauth2Client.setCredentials({ access_token, refresh_token }) of a user
UserCredentials(settings) ==
  [access_token |-> settings.accessToken, refresh_token |-> settings.refreshToken]

\* GET /api/blogspot/auth by user u: the consent URL
BlogspotAuth(p, u) ==
  /\ Idle(p)
  /\ events' = events \cup {[op |-> "consent", user |-> u, token |-> NoEventToken]}
  /\ Respond(p, BlogResp("blogspotAuth", 200))
  /\ UNCHANGED <<posts, nextPostId, blogUsers, oauth2Client, google, now>>

\* GET /api/blogspot/callback up to the userinfo call: the code is exchanged
\* and the tokens become the credentials of the shared client
CallbackGetToken(p, code) ==
  /\ Idle(p)
  /\ UNCHANGED <<posts, nextPostId, blogUsers, google, events, now>>
  /\ IF code = NoCode
     THEN Respond(p, BlogResp("callback", 400)) /\ UNCHANGED oauth2Client
     ELSE IF code.acct \notin Accounts
     THEN Respond(p, BlogResp("callback", 302)) /\ UNCHANGED oauth2Client
     ELSE IF GetToken(code).refresh_token = ""
     THEN Respond(p, BlogResp("callback", 400)) /\ UNCHANGED oauth2Client
     ELSE /\ oauth2Client' = GetToken(code)
          /\ Suspend(p, "cbUserinfo",
                     [BlogLoc EXCEPT !.code = code, !.tokens = GetToken(code),
                                     !.auth = GetToken(code)])

\* callback from the userinfo answer to User.findOne
CallbackUserinfo(p, ok) ==
  /\ pc[p] = "cbUserinfo"
  /\ UNCHANGED <<posts, nextPostId, blogUsers, oauth2Client, google, events, now>>
  /\ IF ~ok \/ ~Authorized(loc[p].auth)
     THEN Respond(p, BlogResp("callback", 302))
     ELSE Suspend(p, "cbFindUser",
                  [loc[p] EXCEPT !.email = AccountEmail(loc[p].auth.access_token.acct)])

\* callback from the user lookup to the blog list call, made with the
\* credentials the shared client holds now
CallbackFindUser(p) ==
  /\ pc[p] = "cbFindUser"
  /\ UNCHANGED <<posts, nextPostId, blogUsers, oauth2Client, google, events, now>>
  /\ IF BlogUsersByEmail(loc[p].email) = {}
     THEN Respond(p, BlogResp("callback", 404))
     ELSE Suspend(p, "cbBlogs",
                  [loc[p] EXCEPT !.user = CHOOSE u \in BlogUsersByEmail(loc[p].email) : TRUE,
                                 !.auth = oauth2Client])

\* callback from the blog list to user.save()
CallbackBlogs(p, ok) ==
  /\ pc[p] = "cbBlogs"
  /\ UNCHANGED <<posts, nextPostId, blogUsers, oauth2Client, google, events, now>>
  /\ IF ~ok \/ ~Authorized(loc[p].auth)
     THEN Respond(p, BlogResp("callback", 302))
     ELSE LET blogs == BlogsOf(loc[p].auth.access_token.acct)
          IN Suspend(p, "cbSave",
               [loc[p] EXCEPT !.settings =
                  [accessToken |-> loc[p].tokens.access_token,
                   refreshToken |-> loc[p].tokens.refresh_token,
                   expiresAt |-> loc[p].tokens.access_token.exp,
                   blogId |-> IF blogs = <<>> THEN "" ELSE blogs[1].id,
                   blogUrl |-> IF blogs = <<>> THEN "" ELSE blogs[1].url]])

\* callback: user.save() and the redirect
CallbackSave(p) ==
  /\ pc[p] = "cbSave"
  /\ blogUsers' = [blogUsers EXCEPT ![loc[p].user].blogspotSettings = loc[p].settings]
  /\ Respond(p, [op |-> "callback", code |-> 302, user |-> loc[p].user, connected |-> TRUE])
  /\ UNCHANGED <<posts, nextPostId, oauth2Client, google, events, now>>

\* the answer of POST /api/blogspot/publish; called: blogger.posts.insert was
\* called
PublishResp(code, l, called) ==
  [op |-> "blogspotPublish", code |-> code, user |-> l.user, id |-> l.postId,
   called |-> called]

\* refreshUserToken up to refreshAccessToken: the shared client gets the
\* user's refresh token
RefreshIssue(p, at, l) ==
  /\ oauth2Client' = [access_token |-> NoAccessToken, refresh_token |-> l.settings.refreshToken]
  /\ Suspend(p, at, [l EXCEPT !.auth = [access_token |-> NoAccessToken,
                                        refresh_token |-> l.settings.refreshToken],
                              !.checkedAt = now])

\* refreshUserToken from the provider's answer to user.save(); a refused
\* refresh ends the request
RefreshAnswer(p, op, at) ==
  /\ UNCHANGED <<posts, nextPostId, blogUsers, oauth2Client, google, events, now>>
  /\ IF ~Renewable(loc[p].auth.refresh_token)
     THEN Respond(p, IF op = "blogs"
                     THEN [op |-> op, code |-> 500, user |-> loc[p].user, called |-> FALSE]
                     ELSE PublishResp(500, loc[p], FALSE))
     ELSE Suspend(p, at,
            [loc[p] EXCEPT
               !.settings.accessToken = [acct |-> loc[p].auth.refresh_token,
                                         exp |-> now + HourTicks],
               !.settings.expiresAt = now + HourTicks,
               !.refreshed = TRUE])

\* (a refresh that is not persisted)
RefreshSaveNone(p) == UNCHANGED blogUsers

\* refreshUserToken: user.save() writes the two paths it modified
RefreshSave(p) ==
  blogUsers' = [blogUsers EXCEPT
                  ![loc[p].user].blogspotSettings.accessToken = loc[p].settings.accessToken,
                  ![loc[p].user].blogspotSettings.expiresAt = loc[p].settings.expiresAt]

\* GET /api/blogspot/blogs by user u up to the first provider call
BlogsFind(p, u) ==
  /\ Idle(p)
  /\ UNCHANGED <<posts, nextPostId, blogUsers, google, events, now>>
  /\ IF u \notin DOMAIN blogUsers \/ ~IsBlogspotConnected(blogUsers[u].blogspotSettings)
     THEN /\ Respond(p, [op |-> "blogs", code |-> 400, user |-> u, called |-> FALSE])
          /\ UNCHANGED oauth2Client
     ELSE LET l == [BlogLoc EXCEPT !.user = u, !.settings = blogUsers[u].blogspotSettings]
          IN IF l.settings.expiresAt < now
             THEN RefreshIssue(p, "blRefresh", l)
             ELSE /\ oauth2Client' = UserCredentials(l.settings)
                  /\ Suspend(p, "blList", [l EXCEPT !.auth = UserCredentials(l.settings),
                                                    !.checkedAt = now])

BlogsRefresh(p) ==
  /\ pc[p] = "blRefresh"
  /\ RefreshAnswer(p, "blogs", "blSave")

\* blogs from the saved refresh to the provider call
BlogsSave(p) ==
  /\ pc[p] = "blSave"
  /\ RefreshSave(p)
  /\ oauth2Client' = UserCredentials(loc[p].settings)
  /\ Suspend(p, "blList", [loc[p] EXCEPT !.auth = UserCredentials(loc[p].settings)])
  /\ UNCHANGED <<posts, nextPostId, google, events, now>>

\* blogs: the provider's answer
BlogsList(p, ok) ==
  /\ pc[p] = "blList"
  /\ UNCHANGED <<posts, nextPostId, blogUsers, oauth2Client, google, events, now>>
  /\ IF ~ok \/ ~Authorized(loc[p].auth)
     THEN Respond(p, [op |-> "blogs", code |-> 500, user |-> loc[p].user, called |-> TRUE])
     ELSE Respond(p, [op |-> "blogs", code |-> 200, user |-> loc[p].user, called |-> TRUE,
                      blogs |-> BlogsOf(loc[p].auth.access_token.acct)])

\* POST /api/blogspot/publish by user u up to Post.findById
PublishFind(p, u, postId) ==
  /\ Idle(p)
  /\ UNCHANGED <<posts, nextPostId, blogUsers, oauth2Client, google, events, now>>
  /\ IF u \notin DOMAIN blogUsers \/ ~IsBlogspotConnected(blogUsers[u].blogspotSettings)
     THEN Respond(p, PublishResp(400, [BlogLoc EXCEPT !.user = u, !.postId = postId], FALSE))
     ELSE Suspend(p, "pubFindPost",
                  [BlogLoc EXCEPT !.user = u, !.postId = postId,
                                  !.settings = blogUsers[u].blogspotSettings])

\* publish from the post lookup to the first provider call
PublishFindPost(p) ==
  /\ pc[p] = "pubFindPost"
  /\ UNCHANGED <<posts, nextPostId, blogUsers, google, events, now>>
  /\ IF loc[p].postId \notin DOMAIN posts
     THEN Respond(p, PublishResp(404, loc[p], FALSE)) /\ UNCHANGED oauth2Client
     ELSE IF posts[loc[p].postId].userId # loc[p].user
     THEN Respond(p, PublishResp(403, loc[p], FALSE)) /\ UNCHANGED oauth2Client
     ELSE IF loc[p].settings.expiresAt < now
     THEN RefreshIssue(p, "pubRefresh", loc[p])
     ELSE /\ oauth2Client' = UserCredentials(loc[p].settings)
          /\ Suspend(p, "pubInsert", [loc[p] EXCEPT !.auth = UserCredentials(loc[p].settings),
                                                    !.checkedAt = now])

PublishRefresh(p) ==
  /\ pc[p] = "pubRefresh"
  /\ RefreshAnswer(p, "blogspotPublish", "pubSave")

\* publish from the saved refresh to the provider call
PublishSave(p) ==
  /\ pc[p] = "pubSave"
  /\ RefreshSave(p)
  /\ oauth2Client' = UserCredentials(loc[p].settings)
  /\ Suspend(p, "pubInsert", [loc[p] EXCEPT !.auth = UserCredentials(loc[p].settings)])
  /\ UNCHANGED <<posts, nextPostId, google, events, now>>

\* publish: blogger.posts.insert answers, the post document is changed and
\* post.save() is called
PublishInsert(p, ok) ==
  /\ pc[p] = "pubInsert"
  /\ UNCHANGED <<posts, nextPostId, blogUsers, oauth2Client, events, now>>
  /\ IF \/ ~ok
        \/ ~Authorized(loc[p].auth)
        \/ \A i \in DOMAIN BlogsOf(loc[p].auth.access_token.acct) :
              BlogsOf(loc[p].auth.access_token.acct)[i].id # loc[p].settings.blogId
     THEN Respond(p, PublishResp(500, loc[p], TRUE)) /\ UNCHANGED google
     ELSE /\ google' = [google EXCEPT !.posts =
                          Append(@, [blogId |-> loc[p].settings.blogId,
                                     localId |-> loc[p].postId,
                                     acct |-> loc[p].auth.access_token.acct,
                                     published |-> now])]
          /\ Suspend(p, "pubPostSave",
                     [loc[p] EXCEPT !.inserted = Len(google.posts) + 1,
                                    !.publishedAt = now])

\* publish: post.save() writes status, publishedAt and blogspot
PublishPostSave(p) ==
  /\ pc[p] = "pubPostSave"
  /\ UNCHANGED <<nextPostId, blogUsers, oauth2Client, google, events, now>>
  /\ IF loc[p].postId \notin DOMAIN posts
     THEN Respond(p, PublishResp(500, loc[p], TRUE)) /\ UNCHANGED posts
     ELSE /\ posts' = [posts EXCEPT
                         ![loc[p].postId].status = "published",
                         ![loc[p].postId].publishedAt =
                            PreSavePublishedAt(TRUE, "published", loc[p].publishedAt),
                         ![loc[p].postId].blogspot =
                            [postId |-> loc[p].inserted,
                             publishedAt |-> google.posts[loc[p].inserted].published,
                             url |-> loc[p].inserted,
                             lastSyncAt |-> loc[p].publishedAt]]
          /\ Respond(p, PublishResp(200, loc[p], TRUE))

\* DELETE /api/blogspot/disconnect by user u
Disconnect(p, u) ==
  /\ Idle(p)
  /\ UNCHANGED <<posts, nextPostId, oauth2Client, google, events, now>>
  /\ IF u \notin DOMAIN blogUsers
     THEN Respond(p, BlogResp("disconnect", 404)) /\ UNCHANGED blogUsers
     ELSE /\ blogUsers' = [blogUsers EXCEPT ![u].blogspotSettings = NoSettings]
          /\ Respond(p, [op |-> "disconnect", code |-> 200, user |-> u])

\* ------------------------------------------------------------------ blog auth routes
\* expiresIn: '7d' of the refresh token
BlogRefreshTtl == WeekDays * DayTicks

\* the refresh tokens generateTokens signed so far
SignedTokens == {e.token : e \in {x \in events : x.op = "signed"}}

\* generateTokens(userId): the refresh token signed now
GenerateTokens(u) == [id |-> u, iat |-> now, signed |-> TRUE]

\* jwt.verify(refreshToken, JWT_REFRESH_SECRET)
VerifyRefresh(t) == t.signed /\ now < t.iat + BlogRefreshTtl

\* the answer of POST /api/auth/login
BlogLoginCode(email, password) ==
  IF BlogUsersByEmail(email) = {} THEN 401
  ELSE LET user == blogUsers[CHOOSE u \in BlogUsersByEmail(email) : TRUE]
       IN IF ~user.isActive THEN 401
          ELSE IF ~VerifyPassword(password, user.password) THEN 401
          ELSE 200

\* POST /api/auth/login
BlogLogin(email, password) ==
  /\ UNCHANGED <<posts, nextPostId, blogUsers, oauth2Client, google, now>>
  /\ IF BlogLoginCode(email, password) # 200
     THEN /\ resp' = [op |-> "blogLogin", code |-> 401, token |-> NoEventToken,
                      newToken |-> NoEventToken]
          /\ UNCHANGED events
     ELSE LET u == CHOOSE u \in BlogUsersByEmail(email) : TRUE
          IN /\ events' = events \cup {[op |-> "signed", user |-> u,
                                        token |-> GenerateTokens(u)]}
             /\ resp' = [op |-> "blogLogin", code |-> 200, token |-> NoEventToken,
                         newToken |-> GenerateTokens(u)]

\* the answer of POST /api/auth/refresh
BlogRefreshCode(t) ==
  IF ~VerifyRefresh(t) THEN 401
  ELSE IF t.id \notin DOMAIN blogUsers THEN 401
  ELSE IF ~blogUsers[t.id].isActive THEN 401
  ELSE 200

\* POST /api/auth/refresh with the refresh token t
BlogRefresh(t) ==
  /\ UNCHANGED <<posts, nextPostId, blogUsers, oauth2Client, google, now>>
  /\ IF BlogRefreshCode(t) # 200
     THEN /\ resp' = [op |-> "blogRefresh", code |-> 401, token |-> t,
                      newToken |-> NoEventToken]
          /\ UNCHANGED events
     ELSE /\ events' = events \cup {[op |-> "signed", user |-> t.id,
                                     token |-> GenerateTokens(t.id)],
                                    [op |-> "refreshed", user |-> t.id, token |-> t]}
          /\ resp' = [op |-> "blogRefresh", code |-> 200, token |-> t,
                      newToken |-> GenerateTokens(t.id)]

\* an administrator clears the active flag of a blog user
DeactivateBlogUser(u) ==
  /\ blogUsers[u].isActive
  /\ blogUsers' = [blogUsers EXCEPT ![u].isActive = FALSE]
  /\ UNCHANGED <<posts, nextPostId, oauth2Client, google, events, now, resp>>

\* the blog clock stops one tick after the tokens signed at 0 expired
BlogClockEnd == BlogRefreshTtl + 1

\* the clock advances by the lifetime of a refresh token, or one tick more
BlogSleep(d) ==
  /\ now + d <= BlogClockEnd
  /\ now' = now + d
  /\ UNCHANGED <<posts, nextPostId, blogUsers, oauth2Client, google, events, resp>>

\* ------------------------------------------------------------------ environment
\* an administrator clears the active flag of a user
Deactivate(u) ==
  /\ u \in DOMAIN users
  /\ users[u].isActive
  /\ users' = [users EXCEPT ![u].isActive = FALSE]
  /\ UNCHANGED <<refreshTokens, nextToken, pc, loc, exchanges, now, resp>>

\* the auth clock stops one tick after the tokens issued at 0 expired
ClockEnd == RefreshTtl + 1

\* the clock advances by the lifetime of a refresh token, or one tick more
Sleep(d) ==
  /\ now + d <= ClockEnd
  /\ now' = now + d
  /\ UNCHANGED <<users, refreshTokens, nextToken, pc, loc, exchanges, resp>>

\* the refresh-token strings a client may present
Presentable == NoToken..(nextToken - 1)

InitAuth ==
  /\ tasks = <<>>
  /\ now = 0
  /\ resp = [op |-> "none"]
  /\ users = <<>>
  /\ refreshTokens = {}
  /\ nextToken = 1
  /\ pc = [p \in Procs |-> "idle"]
  /\ loc = [p \in Procs |-> NoLoc]
  /\ exchanges = {}
  /\ accessTokens = {}
  /\ NoBlog

\* a request that would create a user or generate a refresh token is sent only
\* while fewer than MaxUsers users and k tokens exist; a request that fails is
\* sent at any time
MaySignup(k, email) == (TokensLeft(k) /\ UsersLeft) \/ UsersByEmail(ToLower(email)) # {}

MayLogin(k, email, password) == TokensLeft(k) \/ LoginCode(email, password) # 200

MayRefresh(k, t) == TokensLeft(k) \/ RefreshCode(t) # 200

\* no request handler is running
AllIdle == \A p \in Procs : Idle(p)

\* requests one after the other with one password: a single handler, the
\* environment (the administrator, the clock) acts between requests
NextAuth ==
  \/ \E e \in Emails :
        MaySignup(MaxTokens, e) /\ SignupFind(1, e, "Secret01") /\ UNCHANGED <<taskState, accessTokens, blogState>>
  \/ SignupCreate(1) /\ UNCHANGED <<taskState, accessTokens, blogState>>
  \/ SignupToken(1) /\ UNCHANGED <<taskState, accessTokens, blogState>>
  \/ \E e \in Emails :
        MayLogin(MaxTokens, e, "Secret01") /\ LoginFind(1, e, "Secret01")
        /\ UNCHANGED <<taskState, accessTokens, blogState>>
  \/ LoginToken(1) /\ UNCHANGED <<taskState, accessTokens, blogState>>
  \/ \E t \in Presentable :
        MayRefresh(MaxTokens, t) /\ RefreshFind(1, t) /\ UNCHANGED <<taskState, accessTokens, blogState>>
  \/ RefreshDelete(1) /\ UNCHANGED <<taskState, accessTokens, blogState>>
  \/ RefreshUpdate(1) /\ UNCHANGED <<taskState, accessTokens, blogState>>
  \/ \E t \in Presentable : Logout(1, t) /\ UNCHANGED <<taskState, accessTokens, blogState>>
  \/ \E u \in DOMAIN users : LogoutAll(1, u) /\ UNCHANGED <<taskState, accessTokens, blogState>>
  \/ \E u \in DOMAIN users :
        ChangePasswordFind(1, u, "Secret01", "Secret01") /\ UNCHANGED <<taskState, accessTokens, blogState>>
  \/ ChangePasswordUpdate(1) /\ UNCHANGED <<taskState, accessTokens, blogState>>
  \/ ChangePasswordLogoutAll(1) /\ UNCHANGED <<taskState, accessTokens, blogState>>
  \/ \E u \in DOMAIN users : AllIdle /\ Deactivate(u) /\ UNCHANGED <<taskState, accessTokens, blogState>>
  \/ \E d \in {RefreshTtl, RefreshTtl + 1} : AllIdle /\ Sleep(d) /\ UNCHANGED <<taskState, accessTokens, blogState>>

SpecAuth == InitAuth /\ [][NextAuth]_vars

\* requests one after the other with right and wrong passwords, within the
\* lifetime of the refresh tokens
NextLogin ==
  \/ \E e \in Emails, w \in Passwords :
        MaySignup(MaxTokens, e) /\ SignupFind(1, e, w) /\ UNCHANGED <<taskState, accessTokens, blogState>>
  \/ SignupCreate(1) /\ UNCHANGED <<taskState, accessTokens, blogState>>
  \/ SignupToken(1) /\ UNCHANGED <<taskState, accessTokens, blogState>>
  \/ \E e \in Emails, w \in Passwords :
        MayLogin(MaxTokens, e, w) /\ LoginFind(1, e, w) /\ UNCHANGED <<taskState, accessTokens, blogState>>
  \/ LoginToken(1) /\ UNCHANGED <<taskState, accessTokens, blogState>>
  \/ \E t \in Presentable :
        MayRefresh(MaxTokens, t) /\ RefreshFind(1, t) /\ UNCHANGED <<taskState, accessTokens, blogState>>
  \/ RefreshUpdate(1) /\ UNCHANGED <<taskState, accessTokens, blogState>>
  \/ \E t \in Presentable : Logout(1, t) /\ UNCHANGED <<taskState, accessTokens, blogState>>
  \/ \E u \in DOMAIN users : LogoutAll(1, u) /\ UNCHANGED <<taskState, accessTokens, blogState>>
  \/ \E u \in DOMAIN users, c \in Passwords, w \in Passwords :
        ChangePasswordFind(1, u, c, w) /\ UNCHANGED <<taskState, accessTokens, blogState>>
  \/ ChangePasswordUpdate(1) /\ UNCHANGED <<taskState, accessTokens, blogState>>
  \/ ChangePasswordLogoutAll(1) /\ UNCHANGED <<taskState, accessTokens, blogState>>
  \/ \E u \in DOMAIN users : AllIdle /\ Deactivate(u) /\ UNCHANGED <<taskState, accessTokens, blogState>>

SpecLogin == InitAuth /\ [][NextLogin]_vars

\* concurrent requests: the handlers of Procs interleave at their awaits
NextAuthConc ==
  \/ \E p \in Procs, e \in Emails :
        MaySignup(MaxConcTokens, e) /\ SignupFind(p, e, "Secret01")
        /\ UNCHANGED <<taskState, accessTokens, blogState>>
  \/ \E p \in Procs : SignupCreate(p) /\ UNCHANGED <<taskState, accessTokens, blogState>>
  \/ \E p \in Procs : SignupToken(p) /\ UNCHANGED <<taskState, accessTokens, blogState>>
  \/ \E p \in Procs, t \in Presentable :
        MayRefresh(MaxConcTokens, t) /\ RefreshFind(p, t) /\ UNCHANGED <<taskState, accessTokens, blogState>>
  \/ \E p \in Procs : RefreshDelete(p) /\ UNCHANGED <<taskState, accessTokens, blogState>>
  \/ \E p \in Procs : RefreshUpdate(p) /\ UNCHANGED <<taskState, accessTokens, blogState>>
  \/ \E p \in Procs, t \in Presentable : Logout(p, t) /\ UNCHANGED <<taskState, accessTokens, blogState>>
  \/ \E d \in {RefreshTtl, RefreshTtl + 1} : Sleep(d) /\ UNCHANGED <<taskState, accessTokens, blogState>>

SpecAuthConc == InitAuth /\ [][NextAuthConc]_vars

\* ------------------------------------------------------------------ authenticate
\* jwt expiresIn: JWT_EXPIRES_IN defaults to one day
AccessTtl == DayTicks

\* a request without Authorization header and accessToken cookie
NoAccess == [id |-> NoUser, iat |-> NoDate, signed |-> FALSE]

\* generateAccessToken: jwt.sign of the user's id with the secret, at the clock
SignAccess(u) ==
  accessTokens' = accessTokens \cup {[id |-> u, iat |-> now, signed |-> TRUE]}

\* jwt.verify(token, secret): the signature, then exp against the clock n
VerifyAccess(tok, n) == tok.signed /\ n < tok.iat + AccessTtl

\* authenticate without the isActive check
AuthenticateCodeNoRecheck(tok) ==
  IF tok = NoAccess THEN 401
  ELSE IF ~VerifyAccess(tok, now) THEN 401
  ELSE IF tok.id \notin DOMAIN users THEN 401
  ELSE 200

\* the outcome of authenticate for the presented token: 200 stands for next()
\* without an error
AuthenticateCode(tok) ==
  IF tok = NoAccess THEN 401
  ELSE IF ~VerifyAccess(tok, now) THEN 401
  ELSE IF tok.id \notin DOMAIN users THEN 401
  ELSE IF ~users[tok.id].isActive THEN 401
  ELSE 200

\* the authenticate middleware: req.user is set only on the passing path
Authenticate(p, tok) ==
  /\ Idle(p)
  /\ UNCHANGED <<users, refreshTokens, nextToken, exchanges, now>>
  /\ Respond(p, [op |-> "authenticate", code |-> AuthenticateCode(tok), token |-> tok,
                 reqUser |-> IF AuthenticateCode(tok) = 200 THEN tok.id ELSE NoUser])

\* the tokens a client may present: none, the signed ones, and the signed ones
\* with a signature that does not verify
AccessInputs ==
  {NoAccess} \cup accessTokens \cup {[t EXCEPT !.signed = FALSE] : t \in accessTokens}

\* the row of a user is removed from the User table
RemoveUser(u) ==
  /\ u \in DOMAIN users
  /\ users' = [v \in (DOMAIN users) \ {u} |-> users[v]]
  /\ UNCHANGED <<refreshTokens, nextToken, pc, loc, exchanges, now, resp>>

\* the clock of the access tokens stops one tick after the tokens signed at 0
\* expired
AccessClockEnd == AccessTtl + 1

\* logins of the seeded users, requests with their access tokens, the
\* administrator and the clock
NextAuthn ==
  \/ \E e \in Emails :
        MayLogin(MaxTokens, e, "Secret01") /\ LoginFind(1, e, "Secret01")
        /\ UNCHANGED <<taskState, accessTokens, blogState>>
  \/ LoginToken(1) /\ SignAccess(loc[1].userId) /\ UNCHANGED <<taskState, blogState>>
  \/ \E tok \in AccessInputs : Authenticate(1, tok) /\ UNCHANGED <<taskState, accessTokens, blogState>>
  \/ \E u \in UserIds : AllIdle /\ Deactivate(u) /\ UNCHANGED <<taskState, accessTokens, blogState>>
  \/ \E u \in UserIds : AllIdle /\ RemoveUser(u) /\ UNCHANGED <<taskState, accessTokens, blogState>>
  \/ AllIdle /\ now < AccessClockEnd /\ Sleep(1) /\ UNCHANGED <<taskState, accessTokens, blogState>>

\* ------------------------------------------------------------------ task app
InitTasks ==
  /\ tasks = <<>>
  /\ now = 0
  /\ resp = [op |-> "none"]
  /\ users = SeedUsers
  /\ refreshTokens = {}
  /\ nextToken = 1
  /\ pc = [p \in Procs |-> "idle"]
  /\ loc = [p \in Procs |-> NoLoc]
  /\ exchanges = {}
  /\ accessTokens = {}
  /\ NoBlog

\* Task life cycle: the requests create tasks in project p2 with any due date,
\* then change the status or another field
LifeCreateInputs ==
  {d \in CreateBodies :
     /\ d.title = <<"A", "p", "i">> /\ d.description = NoText
     /\ d.projectId = "p2" /\ d.assigneeId = NoUser /\ d.priority = ""}

LifeUpdateInputs ==
  {d \in UpdateBodies :
     /\ Fields(d) = 1
     /\ d.title \in {NoText, <<"A", "p", "i">>} /\ d.description = NoText
     /\ d.assigneeId = NoUser /\ d.priority = "" /\ d.dueDate = NoDate}

LifeQueryInputs == {[NoFilters EXCEPT !.dueDate = "overdue"]}

NextTasks ==
  \/ \E u \in UserIds, d \in LifeCreateInputs : CreateTask(u, d) /\ UNCHANGED <<authState, blogState>>
  \/ \E u \in UserIds, id \in 1..MaxTasks, d \in LifeUpdateInputs :
        UpdateTask(u, id, d) /\ UNCHANGED <<authState, blogState>>
  \/ \E u \in UserIds, f \in LifeQueryInputs : GetTasks(u, f) /\ UNCHANGED <<authState, blogState>>
  \/ Tick /\ UNCHANGED <<authState, blogState>>

SpecTasks == InitTasks /\ [][NextTasks]_vars

\* Task queries: the requests vary every column a filter looks at
CreateInputs ==
  {d \in CreateBodies :
     /\ d.dueDate \in {NoDate, 1}
     /\ d.assigneeId \in {NoUser, "u3"}
     /\ (d.projectId = "p1") = (d.assigneeId = NoUser)
     /\ (d.title = <<"A", "p", "i">>) = (d.description = NoText)}

UpdateInputs ==
  {d \in UpdateBodies : Fields(d) = 1 /\ d.status \in {"IN_PROGRESS", "COMPLETED"}}

NextQuery ==
  \/ \E u \in UserIds, d \in CreateInputs : CreateTask(u, d) /\ UNCHANGED <<authState, blogState>>
  \/ \E u \in UserIds, id \in 1..MaxTasks, d \in UpdateInputs :
        UpdateTask(u, id, d) /\ UNCHANGED <<authState, blogState>>
  \/ \E u \in UserIds, f \in QueryInputs : GetTasks(u, f) /\ UNCHANGED <<authState, blogState>>
  \/ Tick /\ UNCHANGED <<authState, blogState>>

SpecQuery == InitTasks /\ [][NextQuery]_vars

\* ------------------------------------------------------------------ pagination
\* const skip = (page - 1) * limit
Skip(page, limit) == (page - 1) * limit

\* the pagination object of GET /api/posts
PostPagination(page, limit, total) ==
  [currentPage |-> page,
   totalPages |-> CeilDiv(total, limit),
   totalPosts |-> total,
   hasNextPage |-> page < CeilDiv(total, limit),
   hasPrevPage |-> page > 1,
   limit |-> limit]

\* the list queries: page and limit as the validators admit them, and the
\* number of records the filter counts
PageQueries ==
  {[op |-> "pageQuery", page |-> page, limit |-> limit, total |-> total] :
     page \in 1..MaxPage, limit \in 1..MaxLimit, total \in 0..MaxTotal}

\* the pagination of getTasks for the query q
TaskPage(q) ==
  /\ resp = q
  /\ resp' = [op |-> "taskPage", page |-> q.page, limit |-> q.limit, total |-> q.total,
              skip |-> Skip(q.page, q.limit),
              totalPages |-> Pagination(q.page, q.limit, q.total).totalPages,
              hasNextPage |-> Pagination(q.page, q.limit, q.total).hasNextPage,
              hasPrevPage |-> Pagination(q.page, q.limit, q.total).hasPrevPage]
  /\ UNCHANGED <<tasks, now, authState, blogState>>

\* the pagination of GET /api/posts for the query q
PostPage(q) ==
  /\ resp = q
  /\ resp' = [op |-> "postPage",
              page |-> PostPagination(q.page, q.limit, q.total).currentPage,
              limit |-> PostPagination(q.page, q.limit, q.total).limit,
              total |-> PostPagination(q.page, q.limit, q.total).totalPosts,
              skip |-> Skip(q.page, q.limit),
              totalPages |-> PostPagination(q.page, q.limit, q.total).totalPages,
              hasNextPage |-> PostPagination(q.page, q.limit, q.total).hasNextPage,
              hasPrevPage |-> PostPagination(q.page, q.limit, q.total).hasPrevPage]
  /\ UNCHANGED <<tasks, now, authState, blogState>>

\* a list query arrives
InitPage ==
  /\ tasks = <<>>
  /\ now = 0
  /\ resp \in PageQueries
  /\ users = SeedUsers
  /\ refreshTokens = {}
  /\ nextToken = 1
  /\ pc = [p \in Procs |-> "idle"]
  /\ loc = [p \in Procs |-> NoLoc]
  /\ exchanges = {}
  /\ accessTokens = {}
  /\ NoBlog

NextPage ==
  \/ resp.op = "pageQuery" /\ TaskPage(resp)
  \/ resp.op = "pageQuery" /\ PostPage(resp)

SpecPage == InitPage /\ [][NextPage]_vars

\* the seeded database with the authenticate middleware
SpecAuthn == InitTasks /\ [][NextAuthn]_vars

\* ------------------------------------------------------------------ blog specifications
MaxPosts == 1                   \* Post documents created, provider posts inserted

\* the state the posts, blogspot and auth routes of the blog app do not touch:
\* the task app, the AI rate limiter and the frontend
appState == <<tasks, users, refreshTokens, nextToken, exchanges, accessTokens,
              limiter, client>>

\* the registered blog users, none connected to Blogspot
BlogSeed ==
  [u \in BlogUserIds |->
     [email |-> IF u = "b1" THEN "b1@x" ELSE "b2@x", password |-> Hash("Secret01"),
      isActive |-> TRUE, blogspotSettings |-> NoSettings]]

\* the settings a callback at time 0 stored for a user who consented with account g
Connected(g) ==
  [accessToken |-> [acct |-> g, exp |-> HourTicks], refreshToken |-> g,
   expiresAt |-> HourTicks, blogId |-> BlogsOf(g)[1].id, blogUrl |-> BlogsOf(g)[1].url]

\* titles (5 to 200 characters): the first two differ in case, spacing and
\* punctuation only
PostTitles ==
  {<<"A", " ", "P", "o", "d">>, <<"a", " ", " ", "p", "o", "d", "!">>,
   <<"C", "o", "c", "o", "a">>}

PostSlugs == {NoText, <<"A", "-", "p", "o", "d">>}

\* PUT bodies that set one field
PostUpdates ==
  {[NoPostUpdate EXCEPT !.title = <<"C", "o", "c", "o", "a">>],
   [NoPostUpdate EXCEPT !.status = "published"],
   [NoPostUpdate EXCEPT !.status = "archived"],
   [NoPostUpdate EXCEPT !.scheduledFor = MaxNow],
   [NoPostUpdate EXCEPT !.publishedAt = 0],
   [NoPostUpdate EXCEPT !.slug = <<"c", "o", "c", "o", "a">>],
   [NoPostUpdate EXCEPT !.blogspotPostId = 1]}

\* ids a request may name: the documents created so far and one more
PostIds == 1..nextPostId

\* a request that would store a document is sent only while fewer than
\* MaxPosts were created; a request that fails is sent at any time
MayCreate(title, slug) ==
  nextPostId <= MaxPosts
    \/ ~SlugFree(nextPostId, PreSaveSlug(TRUE, Trim(title), ToLower(slug)))

\* b1 is connected to Blogspot with the account g1, b2 is not
InitPosts ==
  /\ tasks = <<>>
  /\ now = 0
  /\ resp = [op |-> "none"]
  /\ users = <<>>
  /\ refreshTokens = {}
  /\ nextToken = 1
  /\ pc = [p \in Procs |-> "idle"]
  /\ loc = [p \in Procs |-> NoLoc]
  /\ exchanges = {}
  /\ accessTokens = {}
  /\ posts = <<>>
  /\ nextPostId = 1
  /\ blogUsers = [BlogSeed EXCEPT !["b1"].blogspotSettings = Connected("g1")]
  /\ oauth2Client = NoCredentials
  /\ google = [revoked |-> {}, posts |-> <<>>]
  /\ events = {}
  /\ limiter = 0
  /\ client = NoClient

\* the requests of the posts and blogspot routes, one after the other
NextPosts ==
  \/ \E t \in PostTitles, s \in PostSlugs :
        /\ AllIdle /\ MayCreate(t, s)
        /\ CreatePost("b1", t, s, NoDate) /\ UNCHANGED <<appState, pc, loc>>
  \/ \E id \in PostIds, b \in PostUpdates :
        AllIdle /\ UpdatePost("b1", id, b) /\ UNCHANGED <<appState, pc, loc>>
  \/ \E u \in BlogUserIds, id \in PostIds :
        AllIdle /\ DeletePost(u, id) /\ UNCHANGED <<appState, pc, loc>>
  \/ \E id \in PostIds : AllIdle /\ PublishPost("b1", id) /\ UNCHANGED <<appState, pc, loc>>
  \/ \E id \in PostIds : AllIdle /\ UnpublishPost("b1", id) /\ UNCHANGED <<appState, pc, loc>>
  \/ \E id \in PostIds :
        Len(google.posts) < MaxPosts /\ PublishFind(1, "b1", id) /\ UNCHANGED appState
  \/ PublishFindPost(1) /\ UNCHANGED appState
  \/ PublishRefresh(1) /\ UNCHANGED appState
  \/ PublishSave(1) /\ UNCHANGED appState
  \/ PublishInsert(1, TRUE) /\ UNCHANGED appState
  \/ PublishPostSave(1) /\ UNCHANGED appState
  \/ AllIdle /\ Tick /\ UNCHANGED <<authState, blogState>>

SpecPosts == InitPosts /\ [][NextPosts]_vars


\* the token handling of the blogs and publish routes: b1 is connected, b2 is
\* not; the requests come one after the other, the clock and the owner of the
\* Google account act at any time
NextTokens ==
  \/ /\ AllIdle /\ nextPostId <= MaxPosts
     /\ CreatePost("b1", <<"A", " ", "P", "o", "d">>, NoText, NoDate)
     /\ UNCHANGED <<appState, pc, loc>>
  \/ \E u \in BlogUserIds : BlogsFind(1, u) /\ UNCHANGED appState
  \/ BlogsRefresh(1) /\ UNCHANGED appState
  \/ BlogsSave(1) /\ UNCHANGED appState
  \/ \E ok \in BOOLEAN : BlogsList(1, ok) /\ UNCHANGED appState
  \/ \E u \in BlogUserIds, id \in PostIds :
        Len(google.posts) < MaxPosts /\ PublishFind(1, u, id) /\ UNCHANGED appState
  \/ PublishFindPost(1) /\ UNCHANGED appState
  \/ PublishRefresh(1) /\ UNCHANGED appState
  \/ PublishSave(1) /\ UNCHANGED appState
  \/ \E ok \in BOOLEAN : PublishInsert(1, ok) /\ UNCHANGED appState
  \/ PublishPostSave(1) /\ UNCHANGED appState
  \/ Revoke("g1") /\ UNCHANGED appState
  \/ Tick /\ UNCHANGED <<authState, blogState>>

SpecTokens == InitPosts /\ [][NextTokens]_vars


\* the registered users, none connected, no post
InitBlogspot ==
  /\ tasks = <<>>
  /\ now = 0
  /\ resp = [op |-> "none"]
  /\ users = <<>>
  /\ refreshTokens = {}
  /\ nextToken = 1
  /\ pc = [p \in Procs |-> "idle"]
  /\ loc = [p \in Procs |-> NoLoc]
  /\ exchanges = {}
  /\ accessTokens = {}
  /\ posts = <<>>
  /\ nextPostId = 1
  /\ blogUsers = BlogSeed
  /\ oauth2Client = NoCredentials
  /\ google = [revoked |-> {}, posts |-> <<>>]
  /\ events = {}
  /\ limiter = 0
  /\ client = NoClient

\* the codes the provider redirects with: none, an invalid one, the offline
\* grants of the three accounts and an online grant
CallbackCodes ==
  {NoCode, BadCode, [acct |-> "g1", offline |-> FALSE]}
    \cup {[acct |-> g, offline |-> TRUE] : g \in Accounts}

\* the blogspot routes and the posts routes they depend on, one request after
\* the other
NextBlogspot ==
  \/ /\ AllIdle /\ nextPostId <= MaxPosts
     /\ CreatePost("b1", <<"A", " ", "P", "o", "d">>, NoText, NoDate)
     /\ UNCHANGED <<appState, pc, loc>>
  \/ \E id \in PostIds :
        /\ AllIdle
        /\ UpdatePost("b1", id, [NoPostUpdate EXCEPT !.blogspotPostId = 1])
        /\ UNCHANGED <<appState, pc, loc>>
  \/ \E u \in BlogUserIds : BlogspotAuth(1, u) /\ UNCHANGED appState
  \/ \E c \in CallbackCodes : CallbackGetToken(1, c) /\ UNCHANGED appState
  \/ \E ok \in BOOLEAN : CallbackUserinfo(1, ok) /\ UNCHANGED appState
  \/ CallbackFindUser(1) /\ UNCHANGED appState
  \/ \E ok \in BOOLEAN : CallbackBlogs(1, ok) /\ UNCHANGED appState
  \/ CallbackSave(1) /\ UNCHANGED appState
  \/ \E u \in BlogUserIds : BlogsFind(1, u) /\ UNCHANGED appState
  \/ BlogsRefresh(1) /\ UNCHANGED appState
  \/ BlogsSave(1) /\ UNCHANGED appState
  \/ \E ok \in BOOLEAN : BlogsList(1, ok) /\ UNCHANGED appState
  \/ \E u \in BlogUserIds, id \in PostIds :
        Len(google.posts) < MaxPosts /\ PublishFind(1, u, id) /\ UNCHANGED appState
  \/ PublishFindPost(1) /\ UNCHANGED appState
  \/ PublishRefresh(1) /\ UNCHANGED appState
  \/ PublishSave(1) /\ UNCHANGED appState
  \/ \E ok \in BOOLEAN : PublishInsert(1, ok) /\ UNCHANGED appState
  \/ PublishPostSave(1) /\ UNCHANGED appState
  \/ \E u \in BlogUserIds : Disconnect(1, u) /\ UNCHANGED appState
  \/ AllIdle /\ Revoke("g1") /\ UNCHANGED appState
  \/ AllIdle /\ Tick /\ UNCHANGED <<authState, blogState>>

SpecBlogspot == InitBlogspot /\ [][NextBlogspot]_vars


\* two requests of the blogspot routes in flight: the callbacks of the
\* accounts g1 and g2 and the blog lists of the two users
NextBlogspotConc ==
  \/ \E p \in Procs, g \in {"g1", "g2"} :
        CallbackGetToken(p, [acct |-> g, offline |-> TRUE]) /\ UNCHANGED appState
  \/ \E p \in Procs : CallbackUserinfo(p, TRUE) /\ UNCHANGED appState
  \/ \E p \in Procs : CallbackFindUser(p) /\ UNCHANGED appState
  \/ \E p \in Procs : CallbackBlogs(p, TRUE) /\ UNCHANGED appState
  \/ \E p \in Procs : CallbackSave(p) /\ UNCHANGED appState
  \/ \E p \in Procs, u \in BlogUserIds : BlogsFind(p, u) /\ UNCHANGED appState
  \/ \E p \in Procs, ok \in BOOLEAN : BlogsList(p, ok) /\ UNCHANGED appState

SpecBlogspotConc == InitBlogspot /\ [][NextBlogspotConc]_vars


MaxBlogTokens == 2              \* refresh tokens the blog auth routes sign

\* the refresh tokens a client may present: none, the signed ones and the
\* signed ones with a broken signature
BlogTokenInputs ==
  {NoEventToken} \cup SignedTokens \cup {[t EXCEPT !.signed = FALSE] : t \in SignedTokens}

\* a request that signs a token is sent only while fewer than MaxBlogTokens
\* were signed; a request that fails is sent at any time
MaySign(code) == Cardinality(SignedTokens) < MaxBlogTokens \/ code # 200

\* login and refresh of the blog app, the administrator and the clock
NextBlogAuth ==
  \/ \E e \in {"b1@x", "zz@x"}, w \in Passwords :
        /\ MaySign(BlogLoginCode(e, w))
        /\ BlogLogin(e, w) /\ UNCHANGED <<appState, pc, loc>>
  \/ \E t \in BlogTokenInputs :
        /\ MaySign(BlogRefreshCode(t))
        /\ BlogRefresh(t) /\ UNCHANGED <<appState, pc, loc>>
  \/ \E u \in BlogUserIds : DeactivateBlogUser(u) /\ UNCHANGED <<appState, pc, loc>>
  \/ \E d \in {BlogRefreshTtl, BlogRefreshTtl + 1} :
        BlogSleep(d) /\ UNCHANGED <<appState, pc, loc>>

SpecBlogAuth == InitBlogspot /\ [][NextBlogAuth]_vars


\* ================================================================== claims
\* rows of the Task table user u may see
VisibleIds(u) == {id \in DOMAIN tasks : Visible(tasks[id], u)}

\* C1: every task getTasks returns to a user, and every task its count query
\* counts, is a task the user created, is assigned to, or that belongs to a
\* project the user owns or is a member of, whatever filters are supplied.
GetTasksOnlyVisible ==
  /\ resp.op = "getTasks" =>
       \A i \in DOMAIN resp.tasks : Visible(resp.tasks[i], resp.userId)
  /\ \A u \in UserIds, f \in QueryInputs : TaskWhere(u, f, now) \subseteq VisibleIds(u)

\* C2: in every state reached by createTask and updateTask calls, completedAt
\* is non-null exactly when the status is COMPLETED.
CompletedAtIffCompleted ==
  \A id \in DOMAIN tasks :
     (tasks[id].completedAt # NoDate) <=> (tasks[id].status = "COMPLETED")

\* is the date d in the bucket at clock n (half-open ranges from local midnight)
InBucket(d, bucket, n) ==
  /\ d # NoDate
  /\ CASE bucket = "overdue" -> d < Today(n)
       [] bucket = "today" -> Today(n) <= d /\ d < Tomorrow(n)
       [] bucket = "this_week" -> Today(n) <= d /\ d < WeekEnd(n)
       [] bucket = "this_month" -> Today(n) <= d /\ d < MonthEnd(n)
       [] OTHER -> FALSE

\* C5: every task getTasks returns satisfies each supplied filter: the requested
\* status, priority, assignee and project, the search term in its title or
\* description, and a due date in the requested bucket.
FiltersConjunctive ==
  resp.op = "getTasks" =>
    \A i \in DOMAIN resp.tasks :
       LET t == resp.tasks[i]
           f == resp.filters
       IN  /\ f.status # "" => t.status = f.status
           /\ f.priority # "" => t.priority = f.priority
           /\ f.assigneeId # "" => t.assigneeId = f.assigneeId
           /\ f.projectId # "" => t.projectId = f.projectId
           /\ f.search # NoText =>
                Contains(t.title, f.search) \/ Contains(t.description, f.search)
           /\ f.dueDate # "" => InBucket(t.dueDate, f.dueDate, resp.at)

OverdueOnly == [NoFilters EXCEPT !.dueDate = "overdue"]

\* the tasks user u sees that are due before today's midnight and still open
OpenOverdueIds(u, n) ==
  {id \in VisibleIds(u) :
     /\ tasks[id].dueDate # NoDate
     /\ tasks[id].dueDate < Today(n)
     /\ tasks[id].status \notin {"COMPLETED", "CANCELLED"}}

\* C6: the overdue query of user u selects exactly the visible tasks due before
\* today's local midnight whose status is neither COMPLETED nor CANCELLED, so a
\* task leaves the result once updateTask completes or cancels it, and a
\* completed or cancelled task is never in it; the response lists these tasks.
OverdueFilter ==
  /\ \A u \in UserIds : TaskWhere(u, OverdueOnly, now) = OpenOverdueIds(u, now)
  /\ (resp.op = "getTasks" /\ resp.filters = OverdueOnly /\ resp.at = now) =>
       /\ {resp.tasks[i].id : i \in DOMAIN resp.tasks} = OpenOverdueIds(resp.userId, now)
       /\ resp.pagination.total = Cardinality(OpenOverdueIds(resp.userId, now))

\* C6 witness: an overdue query answered after a task that was overdue and open
\* has been completed by updateTask: the task is not in the response
OverdueFilterWitness ==
  /\ resp.op = "getTasks" /\ resp.filters = OverdueOnly /\ resp.at = now
  /\ \E id \in VisibleIds(resp.userId) :
        /\ tasks[id].status = "COMPLETED"
        /\ tasks[id].dueDate # NoDate
        /\ tasks[id].dueDate < Today(tasks[id].completedAt)
        /\ \A i \in DOMAIN resp.tasks : resp.tasks[i].id # id

\* ------------------------------------------------------------------ generate routes
\* The AI generation routes of the blog app: aiGenerationLimiter, the
\* validators and the handler, which calls the provider once and maps what it
\* throws to a response.
Endpoints == {"content", "title", "tags", "meta"}

\* max of aiGenerationLimiter: the requests of one client let through per window
AiLimitMax == 10

\* what one call of openai.chat.completions.create does: it returns, throws an
\* OpenAI.APIError with the status the provider answered, or throws another
\* error (the network)
NotCalled == [error |-> "none", status |-> 0]
Completed == [error |-> "none", status |-> 200]
ProviderOutcomes ==
  {Completed, [error |-> "Error", status |-> 0]}
    \cup {[error |-> "APIError", status |-> s] : s \in {429, 401, 500}}

ProviderFailed(o) == o.error # "none"

\* the message of the generic 500 of each route
FailedMessage(endpoint) ==
  CASE endpoint = "content" -> "Failed to generate content. Please try again."
    [] endpoint = "title" -> "Failed to generate titles. Please try again."
    [] endpoint = "tags" -> "Failed to generate tags. Please try again."
    [] endpoint = "meta" -> "Failed to generate meta description. Please try again."

\* the catch of POST /content
ContentCatch(o) ==
  IF o.error = "APIError" /\ o.status = 429
    THEN [code |-> 429, message |-> "Rate limit exceeded. Please try again later."]
  ELSE IF o.error = "APIError" /\ o.status = 401
    THEN [code |-> 500,
          message |-> "AI service configuration error. Please contact support."]
  ELSE [code |-> 500, message |-> FailedMessage("content")]

\* the catch of POST /title
TitleCatch(o) == [code |-> 500, message |-> FailedMessage("title")]

\* the catch of POST /tags
TagsCatch(o) == [code |-> 500, message |-> FailedMessage("tags")]

\* the catch of POST /meta
MetaCatch(o) == [code |-> 500, message |-> FailedMessage("meta")]

Catch(endpoint, o) ==
  CASE endpoint = "content" -> ContentCatch(o)
    [] endpoint = "title" -> TitleCatch(o)
    [] endpoint = "tags" -> TagsCatch(o)
    [] endpoint = "meta" -> MetaCatch(o)

GenerateResp(endpoint, code, message, o) ==
  [op |-> "generate", endpoint |-> endpoint, code |-> code, message |-> message,
   provider |-> o]

\* POST /api/generate/<endpoint> of a request that passed protect: valid is the
\* outcome of the validators, o what the provider does when it is called
Generate(endpoint, valid, o) ==
  /\ limiter' = IF limiter <= AiLimitMax THEN limiter + 1 ELSE limiter
  /\ resp' =
       IF limiter >= AiLimitMax
         THEN GenerateResp(endpoint, 429,
                "Too many AI generation requests, please try again later.", NotCalled)
       ELSE IF ~valid
         THEN GenerateResp(endpoint, 400, "Validation failed", NotCalled)
       ELSE IF ProviderFailed(o)
         THEN GenerateResp(endpoint, Catch(endpoint, o).code,
                           Catch(endpoint, o).message, o)
       ELSE GenerateResp(endpoint, 200, "generated", o)
  /\ UNCHANGED <<tasks, now, authState, posts, nextPostId, blogUsers, oauth2Client,
                 google, events, client>>

\* the window of aiGenerationLimiter ends
LimiterReset ==
  /\ limiter > 0
  /\ limiter' = 0
  /\ UNCHANGED <<tasks, now, resp, authState, posts, nextPostId, blogUsers,
                 oauth2Client, google, events, client>>

NextGenerate ==
  \/ \E endpoint \in Endpoints, valid \in BOOLEAN, o \in ProviderOutcomes :
        Generate(endpoint, valid, o)
  \/ LimiterReset

\* the generate routes with a provider that answers or fails in any way
SpecGenerate == InitBlogspot /\ [][NextGenerate]_vars

\* ------------------------------------------------------------------ publish content
\* The content POST /api/blogspot/publish sends to the provider: the content of
\* the post with the ad code and the affiliate links of the user.  Texts are
\* sequences of characters.

\* the characters \w of a regular expression matches
WordChars ==
  {"a", "b", "c", "d", "e", "f", "g", "h", "i", "j", "k", "l", "m", "n", "o", "p", "q",
   "r", "s", "t", "u", "v", "w", "x", "y", "z", "A", "C", "D", "I", "O", "P", "_"}

\* String.prototype.split(sep)
RECURSIVE Split(_, _)
Split(s, sep) ==
  LET at == {i \in 1..(Len(s) - Len(sep) + 1) : SubSeq(s, i, i + Len(sep) - 1) = sep}
  IN  IF at = {} THEN <<s>>
      ELSE LET i == CHOOSE j \in at : \A k \in at : j <= k
           IN  <<SubSeq(s, 1, i - 1)>> \o Split(SubSeq(s, i + Len(sep), Len(s)), sep)

\* Array.prototype.join(sep)
RECURSIVE Join(_, _)
Join(list, sep) ==
  IF list = <<>> THEN <<>>
  ELSE IF Len(list) = 1 THEN list[1]
  ELSE list[1] \o sep \o Join(Tail(list), sep)

\* Array.prototype.splice(index, 0, item)
Splice(list, index, item) ==
  SubSeq(list, 1, index) \o <<item>> \o SubSeq(list, index + 1, Len(list))

CloseP == <<"<", "/", "p", ">">>
Newline == <<"\n">>

\* "Add AdSense if enabled": settings is user.adSenseSettings
AddAdSense(content, settings) ==
  IF settings.isEnabled /\ settings.adCode # <<>>
    THEN CASE settings.placement = "top" -> settings.adCode \o Newline \o Newline \o content
           [] settings.placement = "middle" ->
                LET paragraphs == Split(content, CloseP)
                    middleIndex == Len(paragraphs) \div 2
                IN  Join(Splice(paragraphs, middleIndex,
                                Newline \o settings.adCode \o Newline), CloseP)
           [] settings.placement = "bottom" -> content \o Newline \o Newline \o settings.adCode
           [] OTHER -> content
  ELSE content

\* \b at position i of s: between s[i-1] and s[i], one is a word character
WordAt(s, i) == i \in 1..Len(s) /\ s[i] \in WordChars
Boundary(s, i) == WordAt(s, i - 1) # WordAt(s, i)

\* new RegExp(`\\b${keyword}\\b`, 'gi') matches at position i of s
MatchAt(s, i, keyword) ==
  /\ i + Len(keyword) - 1 <= Len(s)
  /\ ToLower(SubSeq(s, i, i + Len(keyword) - 1)) = ToLower(keyword)
  /\ Boundary(s, i)
  /\ Boundary(s, i + Len(keyword))

\* the replacement of one link
Anchor(url, text) ==
  <<"<", "a", " ", "h", "r", "e", "f", "=", "\"">> \o url
    \o <<"\"", " ", "t", "a", "r", "g", "e", "t", "=", "\"", "_", "b", "l", "a", "n", "k",
    "\"", " ", "r", "e", "l", "=", "\"", "n", "o", "f", "o", "l", "l", "o", "w",
    " ", "s", "p", "o", "n", "s", "o", "r", "e", "d", "\"", ">">>
    \o text \o <<"<", "/", "a", ">">>

\* content.replace(regex, anchor) from position i on: the matches from left to
\* right, none overlapping another
RECURSIVE ReplaceFrom(_, _, _)
ReplaceFrom(s, i, link) ==
  LET at == {j \in i..Len(s) : MatchAt(s, j, link.keyword)}
  IN  IF at = {} THEN SubSeq(s, i, Len(s))
      ELSE LET j == CHOOSE m \in at : \A k \in at : m <= k
           IN  SubSeq(s, i, j - 1) \o Anchor(link.url, link.keyword)
                 \o ReplaceFrom(s, j + Len(link.keyword), link)

\* "Add affiliate links if enabled": links.forEach over user.affiliateSettings
RECURSIVE ReplaceLinks(_, _)
ReplaceLinks(content, links) ==
  IF links = <<>> THEN content
  ELSE ReplaceLinks(ReplaceFrom(content, 1, Head(links)), Tail(links))

AddAffiliate(content, settings) ==
  IF settings.isEnabled THEN ReplaceLinks(content, settings.links) ELSE content

\* "Prepare content with monetization": the request body of blogger.posts.insert
PrepareContent(content, user) ==
  [op |-> "prepared", content |-> content, user |-> user,
   withAd |-> AddAdSense(content, user.adSenseSettings),
   published |-> AddAffiliate(AddAdSense(content, user.adSenseSettings),
                              user.affiliateSettings)]

\* ---- the posts and settings the content is prepared for
Coffee == <<"c", "o", "f", "f", "e", "e">>
Tea == <<"t", "e", "a">>
AdCode == <<"<", "i", "n", "s", ">", "a", "d", "<", "/", "i", "n", "s", ">">>

Contents ==
  {<<"I", " ", "l", "o", "v", "e", " ", "c", "o", "f", "f", "e", "e">>,
   <<"<", "p", ">", "C", "o", "f", "f", "e", "e", "<", "/", "p", ">", "<", "p", ">",
    "t", "e", "a", "<", "/", "p", ">">>,
   <<"c", "o", "f", "f", "e", "e", "p", "o", "t", " ", "t", "e", "a">>,
   <<"t", "e", "a">>}

Links ==
  {<<>>,
   <<[keyword |-> Coffee, url |-> <<"/", "/", "x", ".", "i", "o", "/", "c">>]>>,
   <<[keyword |-> Tea, url |-> <<"/", "/", "x", ".", "i", "o", "/", "c", "o", "f", "f", "e", "e">>],
     [keyword |-> Coffee, url |-> <<"/", "/", "x", ".", "i", "o", "/", "c">>]>>}

AdSenseSettings ==
  [isEnabled : BOOLEAN, adCode : {<<>>, AdCode},
   placement : {"top", "middle", "bottom", "sidebar"}]

AffiliateSettings == [isEnabled : BOOLEAN, links : Links]

ContentInputs ==
  [op : {"publish"}, content : Contents,
   user : [adSenseSettings : AdSenseSettings, affiliateSettings : AffiliateSettings]]

InitContent ==
  /\ tasks = <<>>
  /\ now = 0
  /\ resp \in ContentInputs
  /\ users = <<>>
  /\ refreshTokens = {}
  /\ nextToken = 1
  /\ pc = [p \in Procs |-> "idle"]
  /\ loc = [p \in Procs |-> NoLoc]
  /\ exchanges = {}
  /\ accessTokens = {}
  /\ NoBlog

\* the publish route prepares the content of the request
Prepare ==
  /\ resp.op = "publish"
  /\ resp' = PrepareContent(resp.content, resp.user)
  /\ UNCHANGED <<tasks, now, authState, blogState>>

NextContent == Prepare

\* the preparation of the published content, for every post and settings
SpecContent == InitContent /\ [][NextContent]_vars

\* ------------------------------------------------------------------ post ownership
\* bodies of PUT /api/posts/:id that name a title or an owner
OwnerUpdates ==
  {[NoPostUpdate EXCEPT !.title = <<"C", "o", "c", "o", "a">>]}
    \cup {[NoPostUpdate EXCEPT !.userId = u] : u \in BlogUserIds}

NextOwner ==
  \/ \E u \in BlogUserIds, t \in PostTitles :
        /\ MayCreate(t, NoText)
        /\ CreatePost(u, t, NoText, NoDate) /\ UNCHANGED <<appState, pc, loc>>
  \/ \E u \in BlogUserIds, id \in PostIds, printsId \in BOOLEAN :
        GetPost(u, id, printsId) /\ UNCHANGED <<appState, pc, loc>>
  \/ \E u \in BlogUserIds, id \in PostIds, b \in OwnerUpdates :
        UpdatePost(u, id, b) /\ UNCHANGED <<appState, pc, loc>>
  \/ \E u \in BlogUserIds, id \in PostIds :
        DeletePost(u, id) /\ UNCHANGED <<appState, pc, loc>>
  \/ \E u \in BlogUserIds, id \in PostIds :
        PublishPost(u, id) /\ UNCHANGED <<appState, pc, loc>>
  \/ \E u \in BlogUserIds, id \in PostIds :
        UnpublishPost(u, id) /\ UNCHANGED <<appState, pc, loc>>

\* the posts routes with requests of two users
SpecOwner == InitPosts /\ [][NextOwner]_vars

\* ------------------------------------------------------------------ concurrent updateTask
\* TaskService.updateTask of handler p up to prisma.task.update: the read of the
\* existing task and the update data computed from it
UpdateTaskFind(p, userId, taskId, data) ==
  /\ Idle(p)
  /\ UNCHANGED <<tasks, now>>
  /\ IF ~(taskId \in DOMAIN tasks /\ Updatable(tasks[taskId], userId))
     THEN Respond(p, [op |-> "updateTask", code |-> 404])
     ELSE LET existingTask == tasks[taskId]
          IN  IF /\ data.assigneeId # NoUser
                 /\ data.assigneeId # existingTask.assigneeId
                 /\ ~ProjectAccess(existingTask.projectId, data.assigneeId)
              THEN Respond(p, [op |-> "updateTask", code |-> 400])
              ELSE Suspend(p, "taskUpdate",
                           [taskId |-> taskId, data |-> data,
                            completedAt |-> CompletedAtUpdate(data, existingTask, now)])

\* prisma.task.update({ where: { id: taskId }, data: updateData }) of handler p
UpdateTaskWrite(p) ==
  /\ pc[p] = "taskUpdate"
  /\ UNCHANGED now
  /\ tasks' = [tasks EXCEPT ![loc[p].taskId] =
                 ApplyUpdate(@, loc[p].data, loc[p].completedAt)]
  /\ Respond(p, [op |-> "updateTask", code |-> 200])

\* bodies that carry a status and nothing else
StatusUpdates == {d \in UpdateBodies : Fields(d) = 1 /\ d.status # ""}

NextTasksConc ==
  \/ \E u \in UserIds, d \in LifeCreateInputs :
        AllIdle /\ CreateTask(u, d) /\ UNCHANGED <<authState, blogState>>
  \/ \E p \in Procs, u \in UserIds, id \in 1..MaxTasks, d \in StatusUpdates :
        /\ UpdateTaskFind(p, u, id, d)
        /\ UNCHANGED <<users, refreshTokens, nextToken, exchanges, accessTokens, blogState>>
  \/ \E p \in Procs :
        /\ UpdateTaskWrite(p)
        /\ UNCHANGED <<users, refreshTokens, nextToken, exchanges, accessTokens, blogState>>
  \/ Tick /\ UNCHANGED <<authState, blogState>>

\* updateTask calls that change the status, two of them in flight
SpecTasksConc == InitTasks /\ [][NextTasksConc]_vars

\* ------------------------------------------------------------------ login and changePassword
NextLoginRace ==
  \/ \E p \in Procs, w \in Passwords :
        /\ MayLogin(MaxConcTokens, <<"a">>, w)
        /\ LoginFind(p, <<"a">>, w) /\ UNCHANGED <<taskState, accessTokens, blogState>>
  \/ \E p \in Procs : LoginToken(p) /\ UNCHANGED <<taskState, accessTokens, blogState>>
  \/ \E p \in Procs, c \in Passwords, w \in Passwords :
        ChangePasswordFind(p, "u1", c, w) /\ UNCHANGED <<taskState, accessTokens, blogState>>
  \/ \E p \in Procs :
        ChangePasswordUpdate(p) /\ UNCHANGED <<taskState, accessTokens, blogState>>
  \/ \E p \in Procs :
        ChangePasswordLogoutAll(p) /\ UNCHANGED <<taskState, accessTokens, blogState>>

\* login and changePassword calls of user u1, two of them in flight
SpecLoginRace == InitTasks /\ [][NextLoginRace]_vars

\* ------------------------------------------------------------------ slug derivation
\* min of body('title').isLength: the shortest title POST /api/posts accepts
MinTitle == 5

\* titles of the shortest accepted length over a letter in both cases, white
\* space, '-' and a character the hook drops
TitleChars == {"a", "A", " ", "-", "!"}
SlugTitles == [1..MinTitle -> TitleChars]

InitSlug ==
  /\ tasks = <<>>
  /\ now = 0
  /\ resp \in [op : {"title"}, title : SlugTitles]
  /\ users = <<>>
  /\ refreshTokens = {}
  /\ nextToken = 1
  /\ pc = [p \in Procs |-> "idle"]
  /\ loc = [p \in Procs |-> NoLoc]
  /\ exchanges = {}
  /\ accessTokens = {}
  /\ NoBlog

\* new Post({ title }) without a slug is saved: the title setter trims, the
\* pre-save hook derives the slug; again is the derivation applied to that slug
DeriveSlug ==
  /\ resp.op = "title"
  /\ resp' = [op |-> "slug", title |-> Trim(resp.title),
              slug |-> PreSaveSlug(TRUE, Trim(resp.title), NoText),
              again |-> Slugify(PreSaveSlug(TRUE, Trim(resp.title), NoText))]
  /\ UNCHANGED <<tasks, now, authState, blogState>>

NextSlug == DeriveSlug

\* the slug derived for every accepted title of the shortest length
SpecSlug == InitSlug /\ [][NextSlug]_vars

\* ------------------------------------------------------------------ repeated publish
MaxInserts == 2                 \* publish requests that reach the provider

\* the publish requests in flight
Publishing ==
  {p \in Procs : pc[p] \in {"pubFindPost", "pubRefresh", "pubSave", "pubInsert"}}

NextRepublish ==
  \/ /\ AllIdle /\ nextPostId <= MaxPosts
     /\ CreatePost("b1", <<"A", " ", "P", "o", "d">>, NoText, NoDate)
     /\ UNCHANGED <<appState, pc, loc>>
  \/ \E p \in Procs, id \in PostIds :
        /\ Len(google.posts) + Cardinality(Publishing) < MaxInserts
        /\ PublishFind(p, "b1", id) /\ UNCHANGED appState
  \/ \E p \in Procs : PublishFindPost(p) /\ UNCHANGED appState
  \/ \E p \in Procs : PublishRefresh(p) /\ UNCHANGED appState
  \/ \E p \in Procs : PublishSave(p) /\ UNCHANGED appState
  \/ \E p \in Procs, ok \in BOOLEAN : PublishInsert(p, ok) /\ UNCHANGED appState
  \/ \E p \in Procs : PublishPostSave(p) /\ UNCHANGED appState
  \/ \E id \in PostIds :
        AllIdle /\ UnpublishPost("b1", id) /\ UNCHANGED <<appState, pc, loc>>
  \/ AllIdle /\ Tick /\ UNCHANGED <<authState, blogState>>

\* publish requests for one post, one after the other or two in flight
SpecRepublish == InitPosts /\ [][NextRepublish]_vars

\* ------------------------------------------------------------------ frontend
\* The axios instance of the frontend with its response interceptor.  client.calls
\* is the chain of pending requests: the last one is at the server, every one
\* below it is an interceptor run that awaits the refresh request above it.
\* client.sent counts the /auth/refresh requests sent since the API request at
\* the bottom of the chain was made, client.retried the times that request was
\* sent again.
MaxChain == 3                   \* requests pending at a time

AnswerStatuses == {200, 401, 500}

Request(url) == [url |-> url, retry |-> FALSE, at |-> "sent"]

\* the routes the components request
ApiUrls == {"/auth/me", "/posts"}

\* a component requests url
ApiRequest(url) ==
  /\ client.calls = <<>>
  /\ client' = [client EXCEPT !.calls = <<Request(url)>>, !.sent = 0, !.retried = 0,
                              !.location = "/"]
  /\ resp' = [op |-> "request", url |-> url, settled |-> "pending", status |-> 0]
  /\ UNCHANGED <<tasks, now, authState, posts, nextPostId, blogUsers, oauth2Client,
                 google, events, limiter>>

\* the interceptor sends /auth/refresh for the request that failed with status
Refreshes(status) ==
  /\ client.calls # <<>>
  /\ status = 401
  /\ ~client.calls[Len(client.calls)].retry
  /\ client.cookies.refreshToken

\* the request at the server is fulfilled: the chain ends, or the interceptor
\* that awaits it stores the access token and sends its request again
Fulfilled ==
  LET n == Len(client.calls)
  IN  IF n = 1 THEN [client EXCEPT !.calls = <<>>]
      ELSE [client EXCEPT !.calls = [SubSeq(@, 1, n - 1) EXCEPT ![n - 1].at = "sent"],
                          !.cookies.accessToken = TRUE,
                          !.retried = IF n = 2 THEN @ + 1 ELSE @]

\* the request at the server is rejected: every interceptor that awaits a
\* refresh catches, removes the cookies, redirects and rejects in turn
Rejected ==
  IF Len(client.calls) = 1 THEN [client EXCEPT !.calls = <<>>]
  ELSE [client EXCEPT !.calls = <<>>,
                      !.cookies = [accessToken |-> FALSE, refreshToken |-> FALSE],
                      !.location = "/login"]

\* the interceptor marks the request and sends /auth/refresh
Refreshing ==
  LET n == Len(client.calls)
  IN  [client EXCEPT !.calls = Append([@ EXCEPT ![n].retry = TRUE, ![n].at = "refreshing"],
                                      Request("/auth/refresh")),
                     !.sent = @ + 1]

\* the server answers the request at the end of the chain with status; the
\* response interceptor and the promises that settle with it run
Answer(status) ==
  /\ client.calls # <<>>
  /\ client' = IF status = 200 THEN Fulfilled
               ELSE IF Refreshes(status) THEN Refreshing
               ELSE Rejected
  /\ resp' = IF client'.calls # <<>> THEN resp
             ELSE [op |-> "request", url |-> client.calls[1].url,
                   settled |-> IF status = 200 THEN "fulfilled" ELSE "rejected",
                   status |-> status]
  /\ UNCHANGED <<tasks, now, authState, posts, nextPostId, blogUsers, oauth2Client,
                 google, events, limiter>>

\* the user logs in: the login mutation stores both cookies
SignIn ==
  /\ client.calls = <<>>
  /\ client' = [client EXCEPT !.cookies = [accessToken |-> TRUE, refreshToken |-> TRUE],
                              !.location = "/"]
  /\ UNCHANGED <<tasks, now, resp, authState, posts, nextPostId, blogUsers, oauth2Client,
                 google, events, limiter>>

\* a cookie expires
Expire(cookie) ==
  /\ client.cookies[cookie]
  /\ client' = [client EXCEPT !.cookies[cookie] = FALSE]
  /\ UNCHANGED <<tasks, now, resp, authState, posts, nextPostId, blogUsers, oauth2Client,
                 google, events, limiter>>

InitFrontend ==
  /\ tasks = <<>>
  /\ now = 0
  /\ resp = [op |-> "none"]
  /\ users = <<>>
  /\ refreshTokens = {}
  /\ nextToken = 1
  /\ pc = [p \in Procs |-> "idle"]
  /\ loc = [p \in Procs |-> NoLoc]
  /\ exchanges = {}
  /\ accessTokens = {}
  /\ posts = <<>>
  /\ nextPostId = 1
  /\ blogUsers = <<>>
  /\ oauth2Client = NoCredentials
  /\ google = [revoked |-> {}, posts |-> <<>>]
  /\ events = {}
  /\ limiter = 0
  /\ client = NoClient

NextFrontend ==
  \/ \E url \in ApiUrls : ApiRequest(url)
  \/ \E status \in AnswerStatuses :
        /\ Len(client.calls) < MaxChain \/ ~Refreshes(status)
        /\ Answer(status)
  \/ SignIn
  \/ \E cookie \in {"accessToken", "refreshToken"} : Expire(cookie)

\* the frontend with a server that answers in any way
SpecFrontend == InitFrontend /\ [][NextFrontend]_vars

\* ------------------------------------------------------------------ auth claims
\* the refresh-token strings already exchanged for a new pair
Exchanged == {e.old : e \in exchanges}

\* C3: a refresh-token string is exchanged for a new pair at most once, whatever
\* the interleaving of the refreshToken calls that present it.
RefreshSingleUse ==
  \A e1 \in exchanges, e2 \in exchanges : e1.old = e2.old => e1 = e2

\* handler p answers its request in this step
Answers(p) == pc'[p] = "idle" /\ (pc[p] # "idle" \/ resp' # resp)

\* a successful refreshToken(t) of handler p: t was never exchanged before, t is
\* rejected from then on, the new token is accepted, and the user holds as many
\* refresh tokens as before
RotationStep(p) ==
  (pc[p] = "refreshUpdate" /\ Answers(p)) =>
     /\ resp'.code = 200
     /\ resp'.token = loc[p].token
     /\ loc[p].token \notin Exchanged
     /\ RefreshDecision(refreshTokens', users', now', loc[p].token) = 401
     /\ resp'.newToken # loc[p].token
     /\ RefreshDecision(refreshTokens', users', now', resp'.newToken) = 200
     /\ Cardinality({r \in refreshTokens' : r.userId = loc[p].userId})
          = Cardinality(RowsOfUser(loc[p].userId))

\* refreshToken(t) goes on to its update exactly when t is stored, unexpired and
\* of an active user, and is answered 401 otherwise
RefreshDecided(p) ==
  (Idle(p) /\ (pc'[p] # "idle" \/ (resp' # resp /\ resp'.op = "refresh"))) =>
     \A t \in Presentable :
        RefreshFind(p, t) =>
           /\ (RefreshCode(t) = 200) <=> (pc'[p] = "refreshUpdate")
           /\ RefreshCode(t) = 401 =>
                \/ pc'[p] = "refreshDelete"
                \/ resp'.op = "refresh" /\ resp'.code = 401 /\ resp'.token = t

\* a stored refresh token stays stored with its string until it is presented to
\* refreshToken or revoked by logout, logoutAll or changePassword
TokenKept ==
  refreshTokens' # refreshTokens =>
  \A r \in refreshTokens :
     \/ r \in refreshTokens'
     \/ /\ \E p \in Procs : Answers(p)
        /\ \/ resp'.op \in {"refresh", "logout"} /\ resp'.token = r.token
           \/ resp'.op \in {"logoutAll", "changePassword"} /\ resp'.userId = r.userId

\* C4: with requests sent one after the other, once refreshToken(t) succeeded
\* with the new token t', refreshToken(t) fails with 401 ever after and
\* refreshToken(t') succeeds while t' is stored, unexpired and of an active user;
\* t' stays stored until it is rotated or revoked, and the refresh leaves the
\* number of stored refresh tokens of the user unchanged.
SequentialRotation ==
  [][/\ \A p \in Procs : RotationStep(p) /\ RefreshDecided(p)
     /\ TokenKept
     /\ \A t \in Exchanged : RefreshCode(t) = 401]_vars

\* C4 witness: a refreshToken call that presents an already exchanged string has
\* been answered 401 while the token that replaced it is still accepted
SequentialRotationWitness ==
  /\ resp.op = "refresh" /\ resp.code = 401
  /\ \E e \in exchanges : e.old = resp.token /\ RefreshCode(e.new) = 200

\* changePassword with a current password that does not match: an error, the
\* user and refresh-token tables are unchanged
PasswordMismatch(p) ==
  \A u \in DOMAIN users, c \in Passwords, w \in Passwords :
     (users[u].isActive /\ users[u].password # Hash(c)
        /\ ChangePasswordFind(p, u, c, w)) =>
        /\ resp'.op = "changePassword" /\ resp'.code = 400
        /\ pc'[p] = "idle"
        /\ users' = users
        /\ refreshTokens' = refreshTokens

\* changePassword with the matching current password goes on to its writes
PasswordMatch(p) ==
  \A u \in DOMAIN users, c \in Passwords, w \in Passwords :
     (users[u].isActive /\ users[u].password = Hash(c)
        /\ ChangePasswordFind(p, u, c, w)) =>
        pc'[p] = "passwordUpdate" /\ loc'[p].userId = u /\ loc'[p].newPassword = w

\* the answer of a changePassword that matched
PasswordChanged(p) ==
  (pc[p] = "passwordLogoutAll" /\ Answers(p)) =>
     LET u == loc[p].userId
         new == loc[p].newPassword
     IN  /\ resp'.code = 200
         /\ users'[u].password = Hash(new)
         /\ LoginDecision(users', users[u].email, new) = 200
         /\ \A w \in Passwords \ {new} : LoginDecision(users', users[u].email, w) = 401
         /\ {r \in refreshTokens' : r.userId = u} = {}
         /\ \A r \in refreshTokens : r.userId # u => r \in refreshTokens'
         /\ \A r \in RowsOfUser(u) :
               RefreshDecision(refreshTokens', users', now', r.token) = 401

\* C7: changePassword with a wrong current password fails and changes neither a
\* password hash nor a refresh token; with the right one, afterwards login with
\* the new password succeeds, login with any other password fails, no refresh
\* token of the user is stored and every one that was is rejected.
ChangePasswordEffect ==
  [][\A p \in Procs :
        /\ (Idle(p) /\ (pc'[p] = "passwordUpdate"
                         \/ (resp' # resp /\ resp'.op = "changePassword"))) =>
              PasswordMismatch(p) /\ PasswordMatch(p)
        /\ PasswordChanged(p)]_vars

\* C7 witness: the only user, holding two refresh tokens, has changed the
\* password from Secret01 to Secret02 and holds none
ChangePasswordWitness ==
  /\ resp.op = "changePassword" /\ resp.code = 200
  /\ DOMAIN users = {resp.userId}
  /\ users[resp.userId].password = Hash("Secret02")
  /\ nextToken = 3
  /\ exchanges = {}
  /\ refreshTokens = {}

\* the credentials belong to an existing, active user
LoginOk(email, password) ==
  \E u \in DOMAIN users :
     /\ users[u].email = ToLower(email)
     /\ users[u].isActive
     /\ users[u].password = Hash(password)

\* login goes on to issue tokens exactly for good credentials, and is answered
\* 401 without a write otherwise
LoginDecided(p) ==
  (Idle(p) /\ (pc'[p] = "loginToken" \/ (resp' # resp /\ resp'.op = "login"))) =>
     \A e \in Emails, w \in Passwords :
        LoginFind(p, e, w) =>
           /\ LoginOk(e, w) <=> (pc'[p] = "loginToken")
           /\ LoginOk(e, w) => users[loc'[p].userId].email = ToLower(e)
           /\ ~LoginOk(e, w) =>
                /\ resp'.op = "login" /\ resp'.code = 401
                /\ pc'[p] = "idle"
                /\ refreshTokens' = refreshTokens

\* the answer of a successful login: one new row, of that user, with a string
\* never issued before; every stored row is kept as it is
LoginIssued(p) ==
  (pc[p] = "loginToken" /\ Answers(p)) =>
     /\ resp'.code = 200
     /\ refreshTokens \subseteq refreshTokens'
     /\ Cardinality(refreshTokens' \ refreshTokens) = 1
     /\ \A r \in refreshTokens' \ refreshTokens :
           /\ r.userId = loc[p].userId
           /\ r.token = resp'.newToken
           /\ r.token \notin Presentable
     /\ \A r \in refreshTokens :
           RefreshDecision(refreshTokens', users', now', r.token) = RefreshCode(r.token)

SignupConflict ==
  /\ \A u \in DOMAIN users, v \in DOMAIN users :
        users[u].email = users[v].email => u = v
  /\ (resp.op = "signup" /\ resp.code # 201) => resp.code = 400

\* logout(t): exactly the row of t is removed, none when t is not stored, and t
\* is rejected afterwards
LogoutStep(p) ==
  \A t \in Presentable :
     (resp' # resp /\ resp'.op = "logout" /\ Logout(p, t)) =>
        /\ resp'.code = 200
        /\ refreshTokens' = {r \in refreshTokens : r.token # t}
        /\ Cardinality(refreshTokens \ refreshTokens') <= 1
        /\ RowsByToken(t) = {} => refreshTokens' = refreshTokens
        /\ RefreshDecision(refreshTokens', users', now', t) = 401
        /\ users' = users

\* logoutAll(u): every row of u is removed, the rows of other users are kept
\* as they are, and the removed tokens are rejected afterwards
LogoutAllStep(p) ==
  \A u \in DOMAIN users :
     (resp' # resp /\ resp'.op = "logoutAll" /\ users[u].isActive /\ LogoutAll(p, u)) =>
        /\ resp'.code = 200
        /\ refreshTokens' = {r \in refreshTokens : r.userId # u}
        /\ \A r \in RowsOfUser(u) :
              RefreshDecision(refreshTokens', users', now', r.token) = 401
        /\ users' = users

\* C10: logout(t) removes exactly the stored refresh token t and changes
\* nothing when t is not stored; logoutAll(u) removes every refresh token of u;
\* neither touches a refresh token of another user, and the removed tokens are
\* rejected by refreshToken.
LogoutEffect ==
  [][\A p \in Procs : LogoutStep(p) /\ LogoutAllStep(p)]_vars

\* C10 witness: logoutAll has removed the refresh tokens of its user while a
\* refresh token of another user is still stored and accepted
LogoutWitness ==
  /\ resp.op = "logoutAll" /\ resp.code = 200
  /\ nextToken = 3
  /\ exchanges = {}
  /\ RowsOfUser(resp.userId) = {}
  /\ \E r \in refreshTokens : r.userId # resp.userId /\ RefreshCode(r.token) = 200

\* C11: a request passes authenticate, with req.user set to the user of the
\* token, only if the token verifies at the time of the request and that user
\* exists and is active then; a request with an unexpired signed token of a user
\* who was removed or deactivated since is answered 401 with req.user unset.
AuthenticateRechecks ==
  [][(resp' # resp /\ resp'.op = "authenticate") =>
       LET tok == resp'.token
       IN  /\ resp'.code \in {200, 401}
           /\ (resp'.code = 200) <=> (resp'.reqUser # NoUser)
           /\ resp'.reqUser # NoUser =>
                /\ tok \in accessTokens
                /\ now < tok.iat + AccessTtl
                /\ resp'.reqUser = tok.id
                /\ tok.id \in DOMAIN users
                /\ users[tok.id].isActive
           /\ (tok \in accessTokens /\ now < tok.iat + AccessTtl
                 /\ (tok.id \notin DOMAIN users \/ ~users[tok.id].isActive)) =>
                resp'.code = 401 /\ resp'.reqUser = NoUser]_vars

\* C11 witness: a request with a signed, unexpired token of a user deactivated
\* after the login that signed it has been answered 401
AuthenticateWitness ==
  /\ resp.op = "authenticate" /\ resp.code = 401 /\ resp.reqUser = NoUser
  /\ resp.token \in accessTokens
  /\ now < resp.token.iat + AccessTtl
  /\ resp.token.id \in DOMAIN users
  /\ ~users[resp.token.id].isActive

\* C12: in the pagination of the task list and of the post list, totalPages is
\* the least number of pages of limit records that hold total records,
\* hasNextPage is page < totalPages, which holds exactly when page * limit <
\* total, hasPrevPage is page > 1 and the query skips (page - 1) * limit records;
\* total 47, limit 20, page 3 gives 3 pages, no next page and a previous page.
PaginationArithmetic ==
  resp.op \in {"taskPage", "postPage"} =>
    /\ resp.totalPages >= 0
    /\ resp.totalPages * resp.limit >= resp.total
    /\ (resp.totalPages - 1) * resp.limit < resp.total
    /\ resp.hasNextPage <=> (resp.page < resp.totalPages)
    /\ resp.hasNextPage <=> (resp.page * resp.limit < resp.total)
    /\ resp.hasPrevPage <=> (resp.page > 1)
    /\ resp.skip = (resp.page - 1) * resp.limit
    /\ (resp.total = 47 /\ resp.limit = 20 /\ resp.page = 3) =>
         resp.totalPages = 3 /\ ~resp.hasNextPage /\ resp.hasPrevPage

\* C12 witness: the pagination of page 3 of 47 posts in pages of 20
PaginationWitness ==
  /\ resp.op = "postPage"
  /\ resp.total = 47 /\ resp.limit = 20 /\ resp.page = 3
  /\ resp.totalPages = 3 /\ ~resp.hasNextPage /\ resp.hasPrevPage /\ resp.skip = 40


\* ------------------------------------------------------------------ blog claims
\* documents stored before and after a step
Kept == DOMAIN posts \cap DOMAIN posts'

\* C13: a post's publishedAt is set exactly once, when its status first becomes
\* "published": a step that makes an unpublished post published sets it to the
\* time of the step, and no step assigns it again or clears it afterwards.
PublishedAtOnce ==
  [][\A id \in Kept :
       /\ (posts[id].publishedAt # NoDate => posts'[id].publishedAt = posts[id].publishedAt)
       /\ (posts[id].status # "published" /\ posts'[id].status = "published"
             /\ posts[id].publishedAt = NoDate
           => posts'[id].publishedAt = now)]_vars

\* C14: DELETE of a published post by its owner is answered 400 and the post
\* stays stored, however it was published.
DeletePublishedRejected ==
  [][\A u \in BlogUserIds, id \in DOMAIN posts :
       DeletePost(u, id) /\ posts[id].userId = u /\ posts[id].status = "published"
       => resp'.code = 400 /\ id \in DOMAIN posts']_vars

\* C15: no two stored posts share a slug, and creating a post with no slug and
\* the title of a stored post either stores it under a different slug or is
\* answered 400 or 409 and stores nothing.
SlugUniqueOrConflict ==
  [][/\ \A a, b \in DOMAIN posts' : a # b => posts'[a].slug # posts'[b].slug
     /\ \A t \in PostTitles :
          /\ CreatePost("b1", t, NoText, NoDate)
          /\ \E id \in DOMAIN posts : Slugify(posts[id].title) = Slugify(t)
          => \/ /\ nextPostId \in DOMAIN posts'
                /\ \A id \in DOMAIN posts : posts'[nextPostId].slug # posts[id].slug
             \/ resp'.code \in {400, 409} /\ posts' = posts]_vars


\* the handler issues a provider call (blogs.listByUser or posts.insert) in this step
CallIssued == pc[1] \notin {"blList", "pubInsert"} /\ pc'[1] \in {"blList", "pubInsert"}

\* the handler issues refreshAccessToken in this step
RefreshIssued == pc'[1] \in {"blRefresh", "pubRefresh"} /\ pc[1] # pc'[1]

\* the provider refuses the refresh in this step
RefreshRefused == pc[1] \in {"blRefresh", "pubRefresh"} /\ pc'[1] = "idle"

\* what the database stores for the user of the running request
Stored == blogUsers[loc'[1].user].blogspotSettings

\* C17: the provider API is called only after the stored expiry was checked: a
\* stored expiry in the past leads to a refresh with the stored refresh token,
\* the call is made with the stored tokens when they were not expired and with
\* the refreshed token, persisted with its expiry, otherwise; a refused refresh
\* ends the request in an error with no provider call and the post unchanged.
RefreshBeforeCall ==
  [][/\ RefreshIssued =>
          /\ Stored.expiresAt < now
          /\ loc'[1].auth.refresh_token = Stored.refreshToken
     /\ CallIssued =>
          /\ loc'[1].checkedAt # NoDate
          /\ blogUsers'[loc'[1].user].blogspotSettings.accessToken = loc'[1].auth.access_token
          /\ blogUsers'[loc'[1].user].blogspotSettings.expiresAt >= loc'[1].checkedAt
          /\ loc'[1].refreshed <=> Stored.expiresAt < loc'[1].checkedAt
     /\ RefreshRefused =>
          /\ resp'.code = 500 /\ ~resp'.called
          /\ posts' = posts /\ google' = google]_vars

\* a provider call was issued after a persisted refresh
RefreshBeforeCallWitness ==
  /\ pc[1] \in {"blList", "pubInsert"}
  /\ loc[1].refreshed
  /\ blogUsers[loc[1].user].blogspotSettings.accessToken = loc[1].auth.access_token
  /\ blogUsers[loc[1].user].blogspotSettings.expiresAt > HourTicks


\* the publish request answers in this step
PublishAnswered == pc[1] # "idle" /\ pc'[1] = "idle" /\ resp'.op = "blogspotPublish"

\* the provider's post i was inserted for the local post id
InsertedFor(i, id) == i \in DOMAIN google.posts /\ google.posts[i].localId = id

\* C16: a successful POST /api/blogspot/publish leaves the post published with
\* the provider's post id, URL and publish time; a failed one (not connected,
\* no such post, not the owner, refresh or provider call failed) leaves the
\* post unchanged; a post stores a blogspot.postId only if a provider insert
\* for it succeeded.
PublishEffect ==
  [][/\ PublishAnswered /\ resp'.code = 200 =>
          /\ posts'[resp'.id].status = "published"
          /\ InsertedFor(posts'[resp'.id].blogspot.postId, resp'.id)
          /\ posts'[resp'.id].blogspot.url = posts'[resp'.id].blogspot.postId
          /\ posts'[resp'.id].blogspot.publishedAt =
               google.posts[posts'[resp'.id].blogspot.postId].published
     /\ PublishAnswered /\ resp'.code # 200 => posts' = posts
     /\ pc[1] \in {"pubFindPost", "pubRefresh", "pubSave", "pubInsert"} => posts' = posts
     /\ \A id \in DOMAIN posts' :
          posts'[id].blogspot.postId # 0 => InsertedFor(posts'[id].blogspot.postId, id)]_vars

\* user u stores Blogspot credentials
IsConnected(u) == IsBlogspotConnected(blogUsers[u].blogspotSettings)

\* user u asked for the consent URL
Consented(u) == [op |-> "consent", user |-> u, token |-> NoEventToken] \in events

\* C18: the stored Blogspot credentials of a user change through a callback
\* only if that user requested the consent URL before, a user becomes
\* connected only through such a callback, disconnect leaves the user without
\* tokens, and blogs and publish of a user who is not connected answer 400.
ConnectionMachine ==
  [][/\ \A u \in DOMAIN blogUsers :
          /\ blogUsers'[u].blogspotSettings # blogUsers[u].blogspotSettings
               /\ pc[1] = "cbSave"
             => Consented(u)
          /\ ~IsConnected(u) /\ IsConnected(u)' => pc[1] = "cbSave" /\ Consented(u)
          /\ Disconnect(1, u) =>
               /\ blogUsers'[u].blogspotSettings.accessToken = NoAccessToken
               /\ blogUsers'[u].blogspotSettings.refreshToken = ""
          /\ ~IsConnected(u) /\ (BlogsFind(1, u) \/ \E id \in PostIds : PublishFind(1, u, id))
             => resp'.code = 400]_vars


\* handler p moves to the await named at in this step
Reaches(p, at) == pc[p] # at /\ pc'[p] = at

\* ids of the blogs of a Google account, "" when it has none
BlogIdsOf(g) == IF BlogsOf(g) = <<>> THEN {""} ELSE {BlogsOf(g)[i].id : i \in DOMAIN BlogsOf(g)}

\* C19: requests of different users do not share mutable state: a callback
\* calls the provider with the tokens of the code it exchanged and stores a
\* blog of that account, and the blog list of a user is requested with that
\* user's stored credentials, whatever another request does in between.
NoSharedCredentials ==
  [][\A p \in Procs :
       /\ Reaches(p, "cbUserinfo") \/ Reaches(p, "cbBlogs")
          => loc'[p].auth = loc'[p].tokens
       /\ Reaches(p, "blList")
          => loc'[p].auth = UserCredentials(blogUsers[loc'[p].user].blogspotSettings)
       /\ pc[p] = "cbSave" /\ pc'[p] = "idle"
          => blogUsers'[loc[p].user].blogspotSettings.blogId
               \in BlogIdsOf(loc[p].code.acct)]_vars


\* the refresh token t was exchanged for a new pair before
Refreshed(t) == \E e \in events : e.op = "refreshed" /\ e.token = t

\* C20: once a refresh with token t has succeeded, t is invalid: every later
\* refresh with t is answered 401.
BlogRefreshInvalidates ==
  [][\A t \in BlogTokenInputs : Refreshed(t) /\ BlogRefresh(t) => resp'.code = 401]_vars

\* ------------------------------------------------------------------ generate claims
\* C21: on every generation endpoint a failure of the provider with status 429
\* is answered 429, and every other failure of the provider is answered 500
\* with one of the fixed messages of the routes.
UpstreamMapping ==
  (resp.op = "generate" /\ ProviderFailed(resp.provider))
    => /\ resp.code = (IF resp.provider.status = 429 THEN 429 ELSE 500)
       /\ resp.code = 500
            => resp.message \in {FailedMessage(resp.endpoint),
                                 "AI service configuration error. Please contact support."}

\* ------------------------------------------------------------------ publish content claims
\* the text s in which every whole-word occurrence of a keyword of links, in any
\* case, is wrapped in the anchor of its link, scanned from position i on; the
\* anchor shows the keyword as the link spells it
RECURSIVE WrapFrom(_, _, _)
WrapFrom(s, i, links) ==
  LET at == {j \in i..Len(s) : \E n \in DOMAIN links : MatchAt(s, j, links[n].keyword)}
  IN  IF at = {} THEN SubSeq(s, i, Len(s))
      ELSE LET j == CHOOSE m \in at : \A k \in at : m <= k
               n == CHOOSE m \in DOMAIN links :
                      /\ MatchAt(s, j, links[m].keyword)
                      /\ \A k \in 1..(m - 1) : ~MatchAt(s, j, links[k].keyword)
           IN  SubSeq(s, i, j - 1) \o Anchor(links[n].url, links[n].keyword)
                 \o WrapFrom(s, j + Len(links[n].keyword), links)

\* the number of anchors opened in s
AnchorsIn(s) ==
  Cardinality({i \in 1..(Len(s) - 2) : SubSeq(s, i, i + 2) = <<"<", "a", " ">>})

\* C22: with affiliate links enabled the published HTML is the HTML with the ad
\* in which exactly the whole-word occurrences of the keywords, in any case, are
\* wrapped in the anchor of their link: text inside a longer word and the
\* anchors of other links stay as they are, and 'I love coffee' with keyword
\* 'coffee' gets one anchor.
AffiliateReplacement ==
  (resp.op = "prepared" /\ resp.user.affiliateSettings.isEnabled)
    => /\ resp.published = WrapFrom(resp.withAd, 1, resp.user.affiliateSettings.links)
       /\ AnchorsIn(resp.published)
            = AnchorsIn(WrapFrom(resp.withAd, 1, resp.user.affiliateSettings.links))

\* the ad code with the line breaks the placement puts around it
Snippet(settings) ==
  CASE settings.placement = "top" -> settings.adCode \o Newline \o Newline
    [] settings.placement = "middle" -> Newline \o settings.adCode \o Newline
    [] settings.placement = "bottom" -> Newline \o Newline \o settings.adCode

\* out is c with snippet put in after its first i characters
InsertedAt(out, c, i, snippet) ==
  out = SubSeq(c, 1, i) \o snippet \o SubSeq(c, i + 1, Len(c))

\* the positions of c between two paragraphs: its ends and behind every </p>
ParagraphEnds(c) ==
  {i \in 0..Len(c) :
     \/ i \in {0, Len(c)}
     \/ i >= Len(CloseP) /\ SubSeq(c, i - Len(CloseP) + 1, i) = CloseP}

\* C23: with AdSense enabled and an ad code, the HTML with the ad is the content
\* with the snippet put in once, in front for 'top', behind for 'bottom', between
\* two paragraphs for 'middle', so that taking the snippet out gives the content
\* back; for 'sidebar', without ad code or with AdSense disabled it is the content.
AdInsertion ==
  resp.op = "prepared"
    => LET settings == resp.user.adSenseSettings
           c == resp.content
       IN  IF settings.isEnabled /\ settings.adCode # <<>> /\ settings.placement # "sidebar"
             THEN \E i \in ParagraphEnds(c) :
                    /\ settings.placement = "top" => i = 0
                    /\ settings.placement = "bottom" => i = Len(c)
                    /\ InsertedAt(resp.withAd, c, i, Snippet(settings))
           ELSE resp.withAd = c

\* ------------------------------------------------------------------ post claims
\* user u sends a GET, PUT, DELETE, publish or unpublish request for post id
PostRequest(u, id) ==
  \/ \E printsId \in BOOLEAN : GetPost(u, id, printsId)
  \/ \E b \in OwnerUpdates : UpdatePost(u, id, b)
  \/ DeletePost(u, id)
  \/ PublishPost(u, id)
  \/ UnpublishPost(u, id)

\* C24: no request changes the userId of a post, whatever the body of a PUT
\* names, and a request for a post by a user who does not own it is answered
\* 403 and leaves the post as it is.
PostOwnership ==
  [][/\ \A id \in DOMAIN posts \cap DOMAIN posts' : posts'[id].userId = posts[id].userId
     /\ \A u \in BlogUserIds, id \in DOMAIN posts :
          (posts[id].userId # u /\ PostRequest(u, id))
            => (resp'.code = 403 /\ posts' = posts)]_vars

\* C25: in every state a post has status 'published' exactly if its
\* publishedAt is set.
PublishedIffPublishedAt ==
  \A id \in DOMAIN posts :
    (posts[id].status = "published") <=> (posts[id].publishedAt # NoDate)

\* ------------------------------------------------------------------ concurrency claims
\* C27: when the concurrent updateTask calls have returned, completedAt of the
\* task is non-null exactly if its status is COMPLETED.
ConcurrentCompletedAt ==
  AllIdle => \A id \in DOMAIN tasks :
               (tasks[id].completedAt # NoDate) <=> (tasks[id].status = "COMPLETED")

\* a changePassword of user u has written the new hash and has not yet deleted
\* the refresh tokens
ChangePending(u) ==
  \E r \in Procs : pc[r] = "passwordLogoutAll" /\ loc[r].userId = u

\* C28: a login stores its refresh token only while the password it checked is
\* the password of the user or a changePassword of the user has still to delete
\* the tokens: when changePassword has completed, no stored token stems from a
\* login checked against the old hash.
LoginNotAfterChange ==
  [][\A q \in Procs :
       (pc[q] = "loginToken" /\ pc'[q] = "idle")
         => \/ VerifyPassword(loc[q].password, users[loc[q].userId].password)
            \/ ChangePending(loc[q].userId)]_vars

\* C29: the slug derived for an accepted title is not empty and matches the
\* pattern of the schema, and deriving a slug from it again gives the same slug.
SlugDerivation ==
  resp.op = "slug" => (resp.slug # <<>> /\ MatchesSlug(resp.slug) /\ resp.again = resp.slug)

\* post id is published and has the id of a provider post
AlreadyPublished(id) ==
  id \in DOMAIN posts /\ posts[id].status = "published" /\ posts[id].blogspot.postId # 0

\* C30: a publish request creates no provider post for a post that is already
\* published with a provider post id, and while a post stays published its
\* provider post id is not overwritten.
OneProviderPost ==
  [][/\ \A p \in Procs :
          (pc[p] = "pubInsert" /\ Len(google'.posts) > Len(google.posts))
            => ~AlreadyPublished(loc[p].postId)
     /\ \A id \in DOMAIN posts \cap DOMAIN posts' :
          (AlreadyPublished(id) /\ posts'[id].status = "published")
            => posts'[id].blogspot.postId = posts[id].blogspot.postId]_vars

\* ------------------------------------------------------------------ frontend claims
\* C26: for one API request the interceptor sends at most one /auth/refresh
\* request and sends the request again at most once; a failed refresh ends the
\* chain with the cookies removed and the redirect to /login.
RefreshTerminates ==
  /\ client.sent <= 1
  /\ client.retried <= 1

====
